---- MODULE Spec2Model ----
(***************************************************************************)
(* Training-form tracking application: the persistent store (models.py),   *)
(* form intake and validation (forms.py) and the request handlers          *)
(* (app.py), as a state machine over the database tables.                  *)
(***************************************************************************)
EXTENDS Integers, Sequences, FiniteSets, TLC

(* ------------------------------------------------------------------ *)
(* Bounds                                                               *)
(* ------------------------------------------------------------------ *)
MaxForms == 2

MaxClock == 2

MaxAttachments == 2

\* forms submitted in the intake specification
MaxIntakeForms == 1

\* rows one form holds in one child table, in the bulk-operation specification
MaxRows == 2

(* ------------------------------------------------------------------ *)
(* Values                                                               *)
(* ------------------------------------------------------------------ *)
\* Python None / SQL NULL in a text column
None == "<None>"

\* Python None / SQL NULL in a numeric column
NoneNum == 0 - 999

\* Python None / SQL NULL in a date or datetime column
NoDate == 0

\* The dates the model's clock runs through; a date value is an index into
\* this sequence, so that the order of indices is the chronological order.
Calendar ==
  << [year |-> 2024, month |-> 3, day |-> 30],
     [year |-> 2024, month |-> 3, day |-> 31],
     [year |-> 2024, month |-> 4, day |-> 1],
     [year |-> 2024, month |-> 10, day |-> 15],
     [year |-> 2025, month |-> 1, day |-> 2],
     [year |-> 2025, month |-> 4, day |-> 13] >>

Dates == 1..Len(Calendar)

FormIds == 1..MaxForms

\* the /edit requests that can be in progress at the same time
Requests == {1, 2}

Users == {"a@x.com", "b@x.com"}

\* page size of the listing queries
PageSize == 10

(* ------------------------------------------------------------------ *)
(* State                                                                *)
(* ------------------------------------------------------------------ *)
VARIABLES
  forms,              \* training_forms: id -> row, for the ids that exist
  form_seq,           \* last id handed out by training_forms.id
  trainees,           \* trainees rows, grouped by form_id, in insertion order
  travel_expenses,    \* travel_expenses rows, grouped by form_id
  material_expenses,  \* material_expenses rows, grouped by form_id
  attachments,        \* attachments rows (a set of records with id, form_id)
  att_seq,            \* last id handed out by attachments.id
  admins,             \* admins.email
  clock,              \* datetime.now(), an index into Calendar
  inflight,           \* the /edit requests being handled at once, each with
                      \* its position in the handler and what it holds
  last                \* the request or call handled last, with its outcome

vars == << forms, form_seq, trainees, travel_expenses, material_expenses,
           attachments, att_seq, admins, clock, inflight, last >>

children == << trainees, travel_expenses, material_expenses, attachments, att_seq >>

(* ------------------------------------------------------------------ *)
(* models.py: helpers                                                   *)
(* ------------------------------------------------------------------ *)
\* d.get(k): the value under k, or None when the key is absent
Get(d, k, default) == IF k \in DOMAIN d THEN d[k] ELSE default

\* date.strftime("%Y-%m-%d"): the text form of a date
strftime(d) == [type |-> "str", v |-> d]

\* a Python date object
DateObj(d) == [type |-> "date", v |-> d]

parse_date(val) ==
  CASE val.type = "date" -> val.v
    [] val.type = "datetime" -> val.v
    [] val.type = "str" -> IF val.v \in Dates THEN val.v ELSE NoDate
    [] OTHER -> NoDate

\* str.strip() on the strings the model uses
strip(s) ==
  CASE s = " NA " -> "NA"
    [] s = "Not sure " -> "Not sure"
    [] s = "  " -> ""
    [] OTHER -> s

\* str.lower() on the strings the model uses
lower(s) ==
  CASE s = "Not sure" -> "not sure"
    [] s = "NOT SURE" -> "not sure"
    [] s = "Not Sure" -> "not sure"
    [] s = "NA" -> "na"
    [] s = "N/A" -> "n/a"
    [] OTHER -> s

\* str(x) of a float as Python prints it
FloatStr(n) ==
  CASE n = 0 -> "0.0"
    [] n = 100 -> "100.0"
    [] n = 1111 -> "1111.0"
    [] n = 0 - 5 -> "-5.0"
    [] OTHER -> "float"

flagged_values == {"NA", "N/A", "na", "1111", "€1111.00", "€1111", "1111.00"}

fields_to_check ==
  {"training_name", "trainer_name", "supplier_name", "location_details",
   "training_description", "notes", "invoice_number", "concur_claim", "ida_class"}

\* readiness that compares ida_class with 'Not sure' letter for letter
calculate_ready_for_approval_exact(form_data) ==
  LET ida == Get(form_data, "ida_class", None)
      cost == Get(form_data, "course_cost", NoneNum)
  IN  IF ida = "Not sure"
      THEN FALSE
      ELSE /\ \A k \in fields_to_check :
                LET v == Get(form_data, k, None)
                IN  ~(v # None /\ v # "" /\ strip(v) \in flagged_values)
           /\ ~(cost # NoneNum /\ cost # 0 /\ FloatStr(cost) \in flagged_values)

calculate_ready_for_approval(form_data) ==
  LET ida == Get(form_data, "ida_class", None)
      cost == Get(form_data, "course_cost", NoneNum)
  IN  IF ida # None /\ ida # "" /\ lower(strip(ida)) = "not sure"
      THEN FALSE
      ELSE /\ \A k \in fields_to_check :
                LET v == Get(form_data, k, None)
                IN  ~(v # None /\ v # "" /\ strip(v) \in flagged_values)
           /\ ~(cost # NoneNum /\ cost # 0 /\ FloatStr(cost) \in flagged_values)

\* The row TrainingForm(...) builds in insert_training_form
NewRow(fd, now) ==
  [ training_type        |-> fd["training_type"],
    training_name        |-> fd["training_name"],
    trainer_name         |-> Get(fd, "trainer_name", None),
    trainer_email        |-> Get(fd, "trainer_email", None),
    trainer_department   |-> Get(fd, "trainer_department", None),
    training_hours       |-> Get(fd, "training_hours", NoneNum),
    supplier_name        |-> Get(fd, "supplier_name", None),
    location_type        |-> fd["location_type"],
    location_details     |-> Get(fd, "location_details", None),
    start_date           |-> parse_date(fd["start_date"]),
    end_date             |-> parse_date(fd["end_date"]),
    approved             |-> Get(fd, "approved", FALSE),
    ready_for_approval   |-> IF "ready_for_approval" \in DOMAIN fd
                             THEN fd["ready_for_approval"]
                             ELSE calculate_ready_for_approval(fd),
    is_draft             |-> Get(fd, "is_draft", FALSE),
    concur_claim         |-> Get(fd, "concur_claim", None),
    course_cost          |-> Get(fd, "course_cost", 0),
    invoice_number       |-> Get(fd, "invoice_number", None),
    training_description |-> fd["training_description"],
    notes                |-> Get(fd, "notes", None),
    submitter            |-> Get(fd, "submitter", None),
    ida_class            |-> Get(fd, "ida_class", None),
    submission_date      |-> now,
    created_at           |-> now,
    deleted              |-> FALSE,
    deleted_datetimestamp |-> NoDate ]

\* TrainingForm.update_from_dict: every key that names a column is assigned
update_from_dict(row, form_data) ==
  [ k \in DOMAIN row |->
      IF k \in DOMAIN form_data
      THEN IF k \in {"start_date", "end_date"}
           THEN parse_date(form_data[k])
           ELSE form_data[k]
      ELSE row[k] ]

(* ------------------------------------------------------------------ *)
(* models.py: store operations, as functions of the tables              *)
(* ------------------------------------------------------------------ *)
\* insert_training_form: the new id and the table with the new row
insert_training_form(F, seq, form_data, now) ==
  [ id |-> seq + 1, forms |-> F @@ ((seq + 1) :> NewRow(form_data, now)) ]

\* update that leaves the stored flag alone when none is supplied
update_training_form_no_derive(F, form_id, form_data) ==
  IF form_id \notin DOMAIN F
  THEN [ ret |-> FALSE, forms |-> F ]
  ELSE [ ret |-> TRUE,
         forms |-> [F EXCEPT ![form_id] = update_from_dict(@, form_data)] ]

update_training_form(F, form_id, form_data) ==
  IF form_id \notin DOMAIN F
  THEN [ ret |-> FALSE, forms |-> F ]
  ELSE LET fd == IF "ready_for_approval" \in DOMAIN form_data
                 THEN form_data
                 ELSE form_data @@
                      [ready_for_approval |-> calculate_ready_for_approval(form_data)]
       IN  [ ret |-> TRUE,
             forms |-> [F EXCEPT ![form_id] = update_from_dict(@, fd)] ]

\* soft delete that looks the row up by id alone
soft_delete_any_row(F, form_id, now) ==
  IF form_id \in DOMAIN F
  THEN [ ret |-> TRUE,
         forms |-> [F EXCEPT ![form_id].deleted = TRUE,
                             ![form_id].deleted_datetimestamp = now,
                             ![form_id].approved = FALSE] ]
  ELSE [ ret |-> FALSE, forms |-> F ]

\* soft delete that leaves the approval flag alone
soft_delete_keep_approved(F, form_id, now) ==
  IF form_id \in DOMAIN F /\ F[form_id].deleted = FALSE
  THEN [ ret |-> TRUE,
         forms |-> [F EXCEPT ![form_id].deleted = TRUE,
                             ![form_id].deleted_datetimestamp = now] ]
  ELSE [ ret |-> FALSE, forms |-> F ]

soft_delete_training_form(F, form_id, now) ==
  IF form_id \in DOMAIN F /\ F[form_id].deleted = FALSE
  THEN [ ret |-> TRUE,
         forms |-> [F EXCEPT ![form_id].deleted = TRUE,
                             ![form_id].deleted_datetimestamp = now,
                             ![form_id].approved = FALSE] ]
  ELSE [ ret |-> FALSE, forms |-> F ]

\* recovery that forgets to clear the deletion timestamp
recover_keep_timestamp(F, form_id) ==
  IF form_id \in DOMAIN F /\ F[form_id].deleted = TRUE
  THEN [ ret |-> TRUE, forms |-> [F EXCEPT ![form_id].deleted = FALSE] ]
  ELSE [ ret |-> FALSE, forms |-> F ]

recover_training_form(F, form_id) ==
  IF form_id \in DOMAIN F /\ F[form_id].deleted = TRUE
  THEN [ ret |-> TRUE,
         forms |-> [F EXCEPT ![form_id].deleted = FALSE,
                             ![form_id].deleted_datetimestamp = NoDate] ]
  ELSE [ ret |-> FALSE, forms |-> F ]

\* what a query returns when no row matches (.first() is None)
NoRow == [missing |-> TRUE]

\* get_training_form: the row, or NoRow
get_training_form(F, form_id, include_deleted) ==
  IF form_id \in DOMAIN F /\ (include_deleted \/ F[form_id].deleted = FALSE)
  THEN F[form_id]
  ELSE NoRow

\* a key the row constructor reads with d["k"] is missing: KeyError
Raises(row, required) == \E k \in required : k \notin DOMAIN row

TraineeRow(d) ==
  [ name |-> d["name"], email |-> d["email"],
    department |-> Get(d, "department", "Engineering") ]

TraineeRequired == {"name", "email"}

TravelRow(d) ==
  [ travel_date |-> parse_date(d["travel_date"]),
    destination |-> d["destination"],
    traveler_type |-> d["traveler_type"],
    traveler_email |-> d["traveler_email"],
    traveler_name |-> d["traveler_name"],
    travel_mode |-> d["travel_mode"],
    cost |-> Get(d, "cost", NoneNum),
    distance_km |-> Get(d, "distance_km", NoneNum),
    concur_claim_number |-> Get(d, "concur_claim_number", None) ]

TravelRequired ==
  {"travel_date", "destination", "traveler_type", "traveler_email",
   "traveler_name", "travel_mode"}

MaterialRow(d) ==
  [ purchase_date |-> parse_date(d["purchase_date"]),
    supplier_name |-> d["supplier_name"],
    invoice_number |-> d["invoice_number"],
    material_cost |-> d["material_cost"],
    concur_claim_number |-> Get(d, "concur_claim_number", None) ]

MaterialRequired == {"purchase_date", "supplier_name", "invoice_number", "material_cost"}

\* a NOT NULL column of the row is None: the flush fails
TravelNull(d) == parse_date(d["travel_date"]) = NoDate

MaterialNull(d) == parse_date(d["purchase_date"]) = NoDate

TraineeRows(data) == [ i \in 1..Len(data) |-> TraineeRow(data[i]) ]

TravelRows(data) == [ i \in 1..Len(data) |-> TravelRow(data[i]) ]

MaterialRows(data) == [ i \in 1..Len(data) |-> MaterialRow(data[i]) ]

\* the rows of the batch the loop reaches before a constructor raises KeyError
Reached(data, required) ==
  LET bad == { i \in 1..Len(data) : Raises(data[i], required) }
  IN  IF bad = {} THEN data
      ELSE SubSeq(data, 1, (CHOOSE i \in bad : \A j \in bad : i <= j) - 1)

\* a session that commits whatever was done before the exception
db_session_no_rollback(before, work, raised) == work

\* db_session: commit the work of the block, or roll back when it raised
db_session(before, work, raised) == IF raised THEN before ELSE work

\* insert_trainees: append, or nothing at all when a row raises
insert_trainees(T, form_id, data) ==
  LET raised == \E i \in 1..Len(data) : Raises(data[i], TraineeRequired)
      work == [T EXCEPT ![form_id] = @ \o TraineeRows(Reached(data, TraineeRequired))]
  IN  [ ret |-> ~raised, rows |-> db_session(T, work, raised) ]

\* replacement that keeps the rows the form already had
update_trainees_append(T, form_id, data) == insert_trainees(T, form_id, data)

\* update_trainees: delete the form's rows, then insert, in one transaction
update_trainees(T, form_id, data) ==
  LET raised == \E i \in 1..Len(data) : Raises(data[i], TraineeRequired)
      work == [T EXCEPT ![form_id] = TraineeRows(Reached(data, TraineeRequired))]
  IN  [ ret |-> ~raised, rows |-> db_session(T, work, raised) ]

\* the travel rows a block leaves in the session: those built before a
\* KeyError, or all of them when only the flush at commit fails
TravelWork(data) ==
  IF \E i \in 1..Len(data) : Raises(data[i], TravelRequired)
  THEN TravelRows(Reached(data, TravelRequired))
  ELSE TravelRows(data)

\* insertion that first clears the form's travel rows
insert_travel_expenses_replace(T, form_id, data) ==
  LET raised == \E i \in 1..Len(data) :
                  Raises(data[i], TravelRequired) \/ TravelNull(data[i])
      work == [T EXCEPT ![form_id] = TravelWork(data)]
  IN  [ ret |-> ~raised, rows |-> db_session(T, work, raised) ]

insert_travel_expenses(T, form_id, data) ==
  LET raised == \E i \in 1..Len(data) :
                  Raises(data[i], TravelRequired) \/ TravelNull(data[i])
      work == [T EXCEPT ![form_id] = @ \o TravelWork(data)]
  IN  [ ret |-> ~raised, rows |-> db_session(T, work, raised) ]

update_travel_expenses(T, form_id, data) ==
  LET raised == \E i \in 1..Len(data) :
                  Raises(data[i], TravelRequired) \/ TravelNull(data[i])
      work == [T EXCEPT ![form_id] = TravelWork(data)]
  IN  [ ret |-> ~raised, rows |-> db_session(T, work, raised) ]

MaterialWork(data) ==
  IF \E i \in 1..Len(data) : Raises(data[i], MaterialRequired)
  THEN MaterialRows(Reached(data, MaterialRequired))
  ELSE MaterialRows(data)

insert_material_expenses(T, form_id, data) ==
  LET raised == \E i \in 1..Len(data) :
                  Raises(data[i], MaterialRequired) \/ MaterialNull(data[i])
      work == [T EXCEPT ![form_id] = @ \o MaterialWork(data)]
  IN  [ ret |-> ~raised, rows |-> db_session(T, work, raised) ]

update_material_expenses(T, form_id, data) ==
  LET raised == \E i \in 1..Len(data) :
                  Raises(data[i], MaterialRequired) \/ MaterialNull(data[i])
      work == [T EXCEPT ![form_id] = MaterialWork(data)]
  IN  [ ret |-> ~raised, rows |-> db_session(T, work, raised) ]

(* ------------------------------------------------------------------ *)
(* forms.py: intake and validation                                      *)
(* ------------------------------------------------------------------ *)
TRAINING_TYPES == {"Internal Training", "External Training"}

LOCATION_TYPES == {"Onsite", "Offsite", "Virtual"}

IDA_CLASS_CHOICES ==
  {"Class A - QQI Certified L1-10", "Class B - Nat/International Industry Cert",
   "Class C - Internal Corporate Cert", "Class D - Not Certified",
   "Training not completed/ongoing", "Not sure"}

\* The hidden JSON fields of a request: absent (or empty text), text that
\* json.loads rejects, a JSON value that is not a list, or a list of objects.
Absent == [kind |-> "absent"]

Malformed == [kind |-> "malformed"]

NotAList == [kind |-> "object"]

JsonList(rows) == [kind |-> "list", v |-> rows]

\* truth value of a text field: not None and not empty
Truthy(s) == s # None /\ s # ""

\* DataRequired on a text field
DataRequired(s) == Truthy(s) /\ strip(s) # ""

\* RequiredIf(condition_field, condition_value): TRUE when the field passes
RequiredIf(other, condition_value, s) ==
  other = condition_value => (Truthy(s) /\ strip(s) # "")

RequiredIfInternal(inp, s) == RequiredIf(inp.training_type, "Internal Training", s)

RequiredIfExternal(inp, s) == RequiredIf(inp.training_type, "External Training", s)

RequiredIfOffsite(inp, s) == RequiredIf(inp.location_type, "Offsite", s)

\* ExternalTrainingField(min_value=0) on course_cost: TRUE when it passes
ExternalTrainingField(inp) ==
  inp.training_type = "External Training" =>
     /\ inp.course_cost # NoneNum
     /\ inp.course_cost >= 0

\* the messages ExternalTrainingField leaves on course_cost
course_cost_errors(inp) ==
  IF inp.training_type = "External Training"
  THEN IF inp.course_cost = NoneNum
       THEN {"Course Cost is required for external training."}
       ELSE IF inp.course_cost < 0 THEN {"Value cannot be negative."} ELSE {}
  ELSE {}

\* course_cost.data after its validator ran: cleared for internal training
CourseCostData(inp) ==
  IF inp.training_type = "Internal Training" THEN NoneNum ELSE inp.course_cost

\* RequiredAttachmentsIfVirtual: some uploaded file has a non-empty filename
RequiredAttachmentsIfVirtual(inp) ==
  inp.location_type = "Virtual" =>
     \E i \in 1..Len(inp.files) : inp.files[i] # ""

\* end-date check that accepts every pair of dates
validate_end_date_off(inp) == TRUE

validate_end_date(inp) ==
  ~(inp.start_date # NoDate /\ inp.end_date # NoDate /\ inp.end_date < inp.start_date)

validate_concur_claim(inp) ==
  LET has_expenses == CourseCostData(inp) # NoneNum /\ CourseCostData(inp) > 0
  IN  ~(has_expenses /\ ~(Truthy(inp.concur_claim) /\ strip(inp.concur_claim) # ""))

validate_trainees_data(inp) ==
  /\ inp.trainees_data.kind # "absent"
  /\ ~(inp.trainees_data.kind = "list" /\ inp.trainees_data.v = << >>)

\* TrainingForm.validate_on_submit for a POST: every field validator passes
validate(inp) ==
  /\ inp.training_type \in TRAINING_TYPES
  /\ DataRequired(inp.training_name)
  /\ inp.location_type \in LOCATION_TYPES
  /\ inp.start_date # NoDate
  /\ inp.end_date # NoDate
  /\ validate_end_date(inp)
  /\ DataRequired(inp.training_description)
  /\ inp.ida_class \in IDA_CLASS_CHOICES
  /\ RequiredIfInternal(inp, inp.trainer_name)
  /\ RequiredIfExternal(inp, inp.supplier_name)
  /\ RequiredIfOffsite(inp, inp.location_details)
  /\ inp.training_hours # NoneNum /\ inp.training_hours # 0
  /\ inp.training_hours >= 0
  /\ ExternalTrainingField(inp)
  /\ RequiredIfExternal(inp, inp.invoice_number)
  /\ RequiredIfExternal(inp, inp.concur_claim)
  /\ validate_concur_claim(inp)
  /\ RequiredAttachmentsIfVirtual(inp)
  /\ validate_trainees_data(inp)

\* form data that keeps the supplier name whatever the training type
prepare_form_data_keep_supplier(inp) ==
  LET is_internal == inp.training_type = "Internal Training"
  IN  [ training_type        |-> inp.training_type,
        training_name        |-> inp.training_name,
        trainer_name         |-> IF is_internal THEN inp.trainer_name ELSE None,
        trainer_email        |-> IF is_internal THEN inp.trainer_email ELSE None,
        trainer_department   |-> IF is_internal THEN inp.trainer_department ELSE None,
        supplier_name        |-> inp.supplier_name,
        location_type        |-> inp.location_type,
        location_details     |-> IF inp.location_type = "Offsite"
                                 THEN inp.location_details ELSE None,
        start_date           |-> strftime(inp.start_date),
        end_date             |-> strftime(inp.end_date),
        training_hours       |-> inp.training_hours,
        course_cost          |-> IF ~is_internal /\ CourseCostData(inp) # NoneNum
                                 THEN inp.course_cost ELSE 0,
        invoice_number       |-> IF ~is_internal THEN inp.invoice_number ELSE None,
        concur_claim         |-> inp.concur_claim,
        training_description |-> IF Truthy(inp.training_description)
                                 THEN inp.training_description ELSE "",
        notes                |-> IF Truthy(inp.notes) THEN inp.notes ELSE "",
        ida_class            |-> inp.ida_class ]

prepare_form_data(inp) ==
  LET is_internal == inp.training_type = "Internal Training"
  IN  [ training_type        |-> inp.training_type,
        training_name        |-> inp.training_name,
        trainer_name         |-> IF is_internal THEN inp.trainer_name ELSE None,
        trainer_email        |-> IF is_internal THEN inp.trainer_email ELSE None,
        trainer_department   |-> IF is_internal THEN inp.trainer_department ELSE None,
        supplier_name        |-> IF ~is_internal THEN inp.supplier_name ELSE None,
        location_type        |-> inp.location_type,
        location_details     |-> IF inp.location_type = "Offsite"
                                 THEN inp.location_details ELSE None,
        start_date           |-> strftime(inp.start_date),
        end_date             |-> strftime(inp.end_date),
        training_hours       |-> inp.training_hours,
        course_cost          |-> IF ~is_internal /\ CourseCostData(inp) # NoneNum
                                 THEN inp.course_cost ELSE 0,
        invoice_number       |-> IF ~is_internal THEN inp.invoice_number ELSE None,
        concur_claim         |-> inp.concur_claim,
        training_description |-> IF Truthy(inp.training_description)
                                 THEN inp.training_description ELSE "",
        notes                |-> IF Truthy(inp.notes) THEN inp.notes ELSE "",
        ida_class            |-> inp.ida_class ]

(* ------------------------------------------------------------------ *)
(* auth.py / app.py: authorisation                                      *)
(* ------------------------------------------------------------------ *)
get_admin_by_email(A, email) == email \in A

is_admin_email(A, email) == Truthy(email) /\ get_admin_by_email(A, email)

\* admin check that only looks at the user object having an email
is_admin_user_any(A, user) == Truthy(user)

is_admin_user(A, user) == is_admin_email(A, user)

(* ------------------------------------------------------------------ *)
(* app.py: attachments of a submit or edit request                      *)
(* ------------------------------------------------------------------ *)
\* werkzeug's secure_filename on the names the model uploads
secure_filename(name) ==
  CASE name = "../b.pdf" -> "b.pdf"
    [] OTHER -> name

\* positions of the uploaded files that pass "if file and file.filename"
NamedFiles(files) == { i \in 1..Len(files) : files[i] # "" }

\* how many of the first i files are named: the offset of file i's new id
NamedUpTo(files, i) == Cardinality({ j \in NamedFiles(files) : j <= i })

\* the Attachment rows one request adds, ids handed out in upload order
NewAttachments(seq, form_id, files) ==
  { [ id |-> seq + NamedUpTo(files, i), form_id |-> form_id,
      filename |-> secure_filename(files[i]), description |-> "" ]
    : i \in NamedFiles(files) }

\* the JSON child list a handler passes on, or << >> when it passes nothing
Parsed(json) == IF json.kind = "list" THEN json.v ELSE << >>

(* ------------------------------------------------------------------ *)
(* app.py: request handlers                                             *)
(* ------------------------------------------------------------------ *)
\* the child blocks of /submit and /edit that flash a warning: those whose
\* try body raises, which is json.loads on a malformed value only, the bulk
\* operations returning False instead of raising
Warnings(inp) ==
  { w \in {"travel expenses", "material expenses", "trainees"} :
      (CASE w = "travel expenses" -> inp.travel_expenses_data
         [] w = "material expenses" -> inp.material_expenses_data
         [] OTHER -> inp.trainees_data).kind = "malformed" }

\* notification step whose errors reach the handler of the request
notify_unguarded(mail_fails) == IF mail_fails THEN "raised" ELSE "sent"

\* the notification step of /submit: send_form_submission_notification logs
\* and swallows whatever its body raises, and so does the try around the call
notify(mail_fails) == IF mail_fails THEN "logged" ELSE "sent"

\* POST /submit by user u; save_fails: file.save raises on an uploaded file
submit_form(u, inp, save_fails) ==
  IF ~validate(inp)
  THEN /\ UNCHANGED << forms, form_seq, children, admins, inflight, clock >>
       /\ last' = [op |-> "submit", user |-> u, inp |-> inp, form_id |-> 0,
                   outcome |-> "invalid"]
  ELSE LET form_data == prepare_form_data(inp) @@ [submitter |-> u]
           ins == insert_training_form(forms, form_seq, form_data, clock)
           form_id == ins.id
           failed == save_fails /\ NamedFiles(inp.files) # {}
           travel == inp.travel_expenses_data
           material == inp.material_expenses_data
           people == inp.trainees_data
       IN  /\ form_seq < MaxForms
           /\ att_seq + Cardinality(NamedFiles(inp.files)) <= MaxAttachments
           /\ forms' = ins.forms
           /\ form_seq' = form_id
           /\ UNCHANGED << admins, inflight, clock >>
           /\ IF failed
              THEN /\ UNCHANGED children
                   /\ last' = [op |-> "submit", user |-> u, inp |-> inp,
                               form_id |-> form_id, outcome |-> "error"]
              ELSE /\ attachments' = attachments \cup
                                     NewAttachments(att_seq, form_id, inp.files)
                   /\ att_seq' = att_seq + Cardinality(NamedFiles(inp.files))
                   /\ travel_expenses' =
                        IF travel.kind = "list" /\ travel.v # << >>
                        THEN insert_travel_expenses(travel_expenses, form_id, travel.v).rows
                        ELSE travel_expenses
                   /\ material_expenses' =
                        IF material.kind = "list" /\ material.v # << >>
                        THEN insert_material_expenses(material_expenses, form_id,
                                                      material.v).rows
                        ELSE material_expenses
                   /\ trainees' =
                        IF people.kind = "list" /\ people.v # << >>
                        THEN insert_trainees(trainees, form_id, people.v).rows
                        ELSE trainees
                   /\ \E mail_fails \in BOOLEAN :
                        last' = [op |-> "submit", user |-> u, inp |-> inp,
                                 form_id |-> form_id,
                                 outcome |-> IF notify(mail_fails) = "raised"
                                             THEN "error" ELSE "success",
                                 warnings |-> Warnings(inp),
                                 mail |-> notify(mail_fails)]

\* POST /edit/<form_id> by user u
edit_form(u, form_id, inp, save_fails) ==
  IF ~validate(inp)
  THEN /\ UNCHANGED << forms, form_seq, children, admins, inflight, clock >>
       /\ last' = [op |-> "edit", user |-> u, inp |-> inp, form_id |-> form_id,
                   outcome |-> "invalid"]
  ELSE LET existing_form == get_training_form(forms, form_id, FALSE)
           submitter == IF existing_form # NoRow /\ Truthy(existing_form.submitter)
                        THEN existing_form.submitter ELSE u
           form_data == prepare_form_data(inp) @@ [submitter |-> submitter]
           upd == update_training_form(forms, form_id, form_data)
           failed == save_fails /\ NamedFiles(inp.files) # {}
           added == attachments \cup NewAttachments(att_seq, form_id, inp.files)
           travel == inp.travel_expenses_data
           material == inp.material_expenses_data
           people == inp.trainees_data
       IN  /\ att_seq + Cardinality(NamedFiles(inp.files)) <= MaxAttachments
           /\ forms' = upd.forms
           /\ UNCHANGED << form_seq, admins, inflight, clock >>
           /\ IF failed
              THEN /\ UNCHANGED children
                   /\ last' = [op |-> "edit", user |-> u, inp |-> inp,
                               form_id |-> form_id, outcome |-> "error",
                               existing_form |-> existing_form]
              ELSE /\ attachments' =
                        { a \in added : ~(a.id \in inp.delete_attachments
                                          /\ a.form_id = form_id) }
                   /\ att_seq' = att_seq + Cardinality(NamedFiles(inp.files))
                   /\ travel_expenses' =
                        IF travel.kind = "list"
                        THEN update_travel_expenses(travel_expenses, form_id, travel.v).rows
                        ELSE travel_expenses
                   /\ material_expenses' =
                        IF material.kind = "list"
                        THEN update_material_expenses(material_expenses, form_id,
                                                      material.v).rows
                        ELSE material_expenses
                   /\ trainees' =
                        IF people.kind = "list"
                        THEN update_trainees(trainees, form_id, people.v).rows
                        ELSE trainees
                   /\ last' = [op |-> "edit", user |-> u, inp |-> inp,
                               form_id |-> form_id, outcome |-> "success",
                               warnings |-> Warnings(inp),
                               existing_form |-> existing_form]

\* approval that sets the flag instead of toggling it
approve_training_set(u, form_id) ==
  /\ UNCHANGED << form_seq, children, admins, inflight, clock >>
  /\ IF ~is_admin_user(admins, u)
     THEN /\ UNCHANGED forms
          /\ last' = [op |-> "approve", user |-> u, form_id |-> form_id,
                      outcome |-> "403"]
     ELSE IF form_id \in DOMAIN forms
     THEN LET was_approved == forms[form_id].approved
          IN  /\ forms' = [forms EXCEPT ![form_id].approved = TRUE]
              /\ last' = [op |-> "approve", user |-> u, form_id |-> form_id,
                          outcome |-> "toggled", was_approved |-> was_approved]
     ELSE /\ UNCHANGED forms
          /\ last' = [op |-> "approve", user |-> u, form_id |-> form_id,
                      outcome |-> "not found"]

\* GET /approve/<form_id> by user u
approve_training(u, form_id) ==
  /\ UNCHANGED << form_seq, children, admins, inflight, clock >>
  /\ IF ~is_admin_user(admins, u)
     THEN /\ UNCHANGED forms
          /\ last' = [op |-> "approve", user |-> u, form_id |-> form_id,
                      outcome |-> "403"]
     ELSE IF form_id \in DOMAIN forms
     THEN LET was_approved == forms[form_id].approved
          IN  /\ forms' = [forms EXCEPT ![form_id].approved = ~was_approved]
              /\ last' = [op |-> "approve", user |-> u, form_id |-> form_id,
                          outcome |-> "toggled", was_approved |-> was_approved]
     ELSE /\ UNCHANGED forms
          /\ last' = [op |-> "approve", user |-> u, form_id |-> form_id,
                      outcome |-> "not found"]

\* POST /delete/<form_id> by user u
delete_training_form(u, form_id) ==
  LET form_data == get_training_form(forms, form_id, TRUE)
      res == soft_delete_training_form(forms, form_id, clock)
  IN  /\ UNCHANGED << form_seq, children, admins, inflight, clock >>
      /\ IF form_data = NoRow
         THEN /\ UNCHANGED forms
              /\ last' = [op |-> "delete", user |-> u, form_id |-> form_id,
                          outcome |-> "not found"]
         ELSE IF ~(is_admin_user(admins, u) \/ form_data.submitter = u)
         THEN /\ UNCHANGED forms
              /\ last' = [op |-> "delete", user |-> u, form_id |-> form_id,
                          outcome |-> "no permission"]
         ELSE /\ forms' = res.forms
              /\ last' = [op |-> "delete", user |-> u, form_id |-> form_id,
                          outcome |-> IF res.ret THEN "deleted" ELSE "error",
                          form_data |-> form_data]

\* POST /recover/<form_id> by user u
recover_training_form_route(u, form_id) ==
  LET form_data == get_training_form(forms, form_id, TRUE)
      res == recover_training_form(forms, form_id)
  IN  /\ UNCHANGED << form_seq, children, admins, inflight, clock >>
      /\ IF form_data = NoRow
         THEN /\ UNCHANGED forms
              /\ last' = [op |-> "recover", user |-> u, form_id |-> form_id,
                          outcome |-> "not found"]
         ELSE IF ~(is_admin_user(admins, u) \/ form_data.submitter = u)
         THEN /\ UNCHANGED forms
              /\ last' = [op |-> "recover", user |-> u, form_id |-> form_id,
                          outcome |-> "no permission"]
         ELSE /\ forms' = res.forms
              /\ last' = [op |-> "recover", user |-> u, form_id |-> form_id,
                          outcome |-> IF res.ret THEN "recovered" ELSE "error",
                          form_data |-> form_data]

\* POST /manage_admins by user u: add or remove one admin row
manage_admins(u, what, email) ==
  /\ UNCHANGED << forms, form_seq, children, clock, inflight >>
  /\ IF ~is_admin_user(admins, u)
     THEN /\ UNCHANGED admins
          /\ last' = [op |-> "manage_admins", user |-> u, what |-> what,
                      email |-> email, outcome |-> "403"]
     ELSE /\ admins' = IF what = "add_admin" THEN admins \cup {email}
                       ELSE admins \ {email}
          /\ last' = [op |-> "manage_admins", user |-> u, what |-> what,
                      email |-> email, outcome |-> "done"]

(* ------------------------------------------------------------------ *)
(* app.py: /edit requests handled at the same time, one session each    *)
(* ------------------------------------------------------------------ *)
\* the commit of update_training_form's session: the unit of work writes the
\* columns whose value differs from the one the session loaded, and no other
flush_changed(row, loaded, form_data) ==
  LET target == update_from_dict(loaded, form_data)
  IN  [ k \in DOMAIN row |-> IF target[k] # loaded[k] THEN target[k] ELSE row[k] ]

\* the request whose commit was the last one on the form row and on each
\* child collection, 0 when there was none
Latest ==
  IF "latest" \in DOMAIN last
  THEN last.latest
  ELSE [forms |-> 0, travel_expenses |-> 0, material_expenses |-> 0, trainees |-> 0]

\* request r enters POST /edit/<form_id>: validation, prepare_form_data, the
\* submitter, and the SELECT of update_training_form's session
edit_load(r, u, form_id, inp) ==
  LET existing_form == get_training_form(forms, form_id, FALSE)
      submitter == IF existing_form # NoRow /\ Truthy(existing_form.submitter)
                   THEN existing_form.submitter ELSE u
      data == prepare_form_data(inp) @@ [submitter |-> submitter]
      form_data == data @@ [ready_for_approval |-> calculate_ready_for_approval(data)]
  IN  /\ inflight[r].pc = "idle"
      /\ validate(inp)
      /\ inflight' = [inflight EXCEPT ![r] =
                        [ pc |-> "loaded", form_id |-> form_id, inp |-> inp,
                          form_data |-> form_data,
                          loaded |-> get_training_form(forms, form_id, TRUE) ]]
      /\ last' = [op |-> "edit_step", req |-> r, step |-> "load", latest |-> Latest]
      /\ UNCHANGED << forms, form_seq, children, admins, clock >>

\* request r leaves update_training_form: its session commits
edit_flush(r) ==
  LET req == inflight[r]
  IN  /\ req.pc = "loaded"
      /\ forms' = IF req.loaded = NoRow \/ req.form_id \notin DOMAIN forms
                  THEN forms
                  ELSE [forms EXCEPT ![req.form_id] =
                          flush_changed(@, req.loaded, req.form_data)]
      /\ inflight' = [inflight EXCEPT ![r].pc = "travel_expenses"]
      /\ last' = [op |-> "edit_step", req |-> r, step |-> "forms",
                  latest |-> IF req.loaded = NoRow THEN Latest
                             ELSE [Latest EXCEPT !.forms = r]]
      /\ UNCHANGED << form_seq, children, admins, clock >>

\* request r replaces the next child collection, each in one transaction:
\* travel expenses, then material expenses, then trainees; after the last
\* one it answers 'Form updated successfully!'
edit_children(r) ==
  LET req == inflight[r]
      step == req.pc
      field == CASE step = "travel_expenses" -> req.inp.travel_expenses_data
                 [] step = "material_expenses" -> req.inp.material_expenses_data
                 [] OTHER -> req.inp.trainees_data
      res == CASE step = "travel_expenses" ->
                    update_travel_expenses(travel_expenses, req.form_id, field.v)
               [] step = "material_expenses" ->
                    update_material_expenses(material_expenses, req.form_id, field.v)
               [] OTHER -> update_trainees(trainees, req.form_id, field.v)
      written == field.kind = "list"
  IN  /\ step \in {"travel_expenses", "material_expenses", "trainees"}
      /\ travel_expenses' = IF written /\ step = "travel_expenses"
                            THEN res.rows ELSE travel_expenses
      /\ material_expenses' = IF written /\ step = "material_expenses"
                              THEN res.rows ELSE material_expenses
      /\ trainees' = IF written /\ step = "trainees" THEN res.rows ELSE trainees
      /\ inflight' = [inflight EXCEPT ![r].pc =
                        CASE step = "travel_expenses" -> "material_expenses"
                          [] step = "material_expenses" -> "trainees"
                          [] OTHER -> "done"]
      /\ last' = [op |-> "edit_step", req |-> r, step |-> step,
                  latest |-> IF written /\ res.ret
                             THEN [Latest EXCEPT ![step] = r] ELSE Latest]
      /\ UNCHANGED << forms, form_seq, attachments, att_seq, admins, clock >>

(* ------------------------------------------------------------------ *)
(* models.py: listing queries                                           *)
(* ------------------------------------------------------------------ *)
DeleteStatuses == {"", "not_deleted", "deleted", "approved", "unapproved", "draft", "all"}

\* filters whose default branch forgets the deleted flag
_apply_training_form_filters_no_default(F, date_from, date_to, training_type, approval_status, delete_status) ==
  { id \in DOMAIN F :
      /\ CASE delete_status = "deleted" -> F[id].deleted = TRUE
           [] delete_status = "approved" ->
                F[id].deleted = FALSE /\ F[id].approved = TRUE
           [] delete_status = "unapproved" ->
                F[id].deleted = FALSE /\ F[id].approved = FALSE
                /\ F[id].is_draft = FALSE
           [] delete_status = "draft" ->
                F[id].deleted = FALSE /\ F[id].is_draft = TRUE
           [] OTHER -> TRUE
      /\ (date_from # NoDate => F[id].start_date >= date_from)
      /\ (date_to # NoDate => F[id].end_date <= date_to)
      /\ (training_type # "" => F[id].training_type = training_type)
      /\ (approval_status = "approved" => F[id].approved = TRUE)
      /\ (approval_status = "unapproved" => F[id].approved = FALSE) }

\* _apply_training_form_filters with search_term left at its default
\* (0 stands for "no date_from/date_to", "" for "no filter")
_apply_training_form_filters(F, date_from, date_to, training_type, approval_status, delete_status) ==
  { id \in DOMAIN F :
      /\ CASE delete_status = "deleted" -> F[id].deleted = TRUE
           [] delete_status = "approved" ->
                F[id].deleted = FALSE /\ F[id].approved = TRUE
           [] delete_status = "unapproved" ->
                F[id].deleted = FALSE /\ F[id].approved = FALSE
                /\ F[id].is_draft = FALSE
           [] delete_status = "draft" ->
                F[id].deleted = FALSE /\ F[id].is_draft = TRUE
           [] delete_status = "all" -> TRUE
           [] OTHER -> F[id].deleted = FALSE
      /\ (date_from # NoDate => F[id].start_date >= date_from)
      /\ (date_to # NoDate => F[id].end_date <= date_to)
      /\ (training_type # "" => F[id].training_type = training_type)
      /\ (approval_status = "approved" => F[id].approved = TRUE)
      /\ (approval_status = "unapproved" => F[id].approved = FALSE) }

\* position of a row in ORDER BY submission_date DESC; rows with equal
\* timestamps are taken in id order
RankDesc(F, ids, id) ==
  Cardinality({ j \in ids :
                  \/ F[j].submission_date > F[id].submission_date
                  \/ (F[j].submission_date = F[id].submission_date /\ j < id) })

\* _apply_sorting_and_pagination: the ids on the page (page_size 0: all)
_apply_sorting_and_pagination(F, ids, page, page_size) ==
  IF page_size > 0
  THEN { id \in ids : /\ RankDesc(F, ids, id) >= (page - 1) * page_size
                      /\ RankDesc(F, ids, id) < page * page_size }
  ELSE ids

\* get_all_training_forms: the rows of the page and the total count
get_all_training_forms(F, date_from, date_to, training_type, approval_status, delete_status, page) ==
  LET ids == _apply_training_form_filters(F, date_from, date_to, training_type,
                                          approval_status, delete_status)
  IN  [ forms |-> _apply_sorting_and_pagination(F, ids, page, PageSize),
        total_count |-> Cardinality(ids) ]

get_approved_forms_for_export(F) ==
  _apply_sorting_and_pagination(F, { id \in DOMAIN F : F[id].approved = TRUE }, 1, 0)

(* ------------------------------------------------------------------ *)
(* app.py / utils.py: export candidates                                 *)
(* ------------------------------------------------------------------ *)
\* get_quarter: "Q<q> <year>" as the pair <<q, year>>
get_quarter(d) == << ((Calendar[d].month - 1) \div 3) + 1, Calendar[d].year >>

\* created_at is not in to_dict(): submission_date, else start_date
DerivedDate(row) ==
  IF row.submission_date # NoDate THEN row.submission_date ELSE row.start_date

\* the forms export_claim5 goes on to write, for a GET or a POST body
ExportCandidates(F, req) ==
  IF req.method = "POST"
  THEN { id \in get_approved_forms_for_export(F) :
           /\ DerivedDate(F[id]) # NoDate
           /\ \/ (req.quarters # {} /\ get_quarter(DerivedDate(F[id])) \in req.quarters)
              \/ /\ ~(req.quarters # {}
                      /\ get_quarter(DerivedDate(F[id])) \in req.quarters)
                 /\ req.start_date # NoDate /\ req.end_date # NoDate
                 /\ req.start_date <= DerivedDate(F[id])
                 /\ DerivedDate(F[id]) <= req.end_date }
  ELSE get_approved_forms_for_export(F)

\* the candidates in the order of the query: submission_date descending
ExportOrder(F, ids) ==
  [ k \in 1..Cardinality(ids) |-> CHOOSE id \in ids : RankDesc(F, ids, id) = k - 1 ]

(* ------------------------------------------------------------------ *)
(* app.py: the sheets export_claim5 writes                              *)
(* ------------------------------------------------------------------ *)
\* first data row of the Trainee sheet
TraineeFirstRow == 16

\* first data row of the Personnel Costs Lookup Table sheet
PersonnelFirstRow == 3

\* email.split("@")[0] if "@" in email else email, on the addresses used
local_part(email) ==
  CASE email = "ann@x.com" -> "ann"
    [] email = "ann@y.com" -> "ann"
    [] email = "bob@x.com" -> "bob"
    [] email = "jd@x.com" -> "jd"
    [] OTHER -> email

\* the certification class written for an ida_class
certification_class(ida_class) ==
  CASE ida_class = "Training not completed/ongoing" -> "Ongoing"
    [] ida_class = "Class A - QQI Certified L1-10" -> "A"
    [] ida_class = "Class B - Nat/International Industry Cert" -> "B"
    [] ida_class = "Class C - Internal Corporate Cert" -> "C"
    [] ida_class = "Class D - Not Certified" -> "D"
    [] OTHER -> ida_class

\* the workbook state before the first form: no row written, empty roster
NewBook ==
  [ trainee_sheet |-> << >>, trainee_row |-> TraineeFirstRow,
    personnel |-> << >>, departments |-> << >>, swallowed |-> {} ]

\* if name and name not in personnel: personnel.append, departments.append
AddPersonnel(book, name, department) ==
  IF name # "" /\ \A i \in 1..Len(book.personnel) : book.personnel[i] # name
  THEN [book EXCEPT !.personnel = Append(@, name),
                    !.departments = Append(@, department)]
  ELSE book

\* the cells of one Trainee row; a cell the code did not reach stays None
TraineeCells(form, trainee_name, reached_class, reached_trainer) ==
  LET internal == form.training_type = "Internal Training"
  IN  [ name |-> trainee_name,
        course |-> form.training_name,
        certification_class |-> IF reached_class
                                THEN certification_class(form.ida_class) ELSE None,
        training_hours |-> IF reached_class THEN form.training_hours ELSE NoneNum,
        start_date |-> IF reached_class THEN form.start_date ELSE NoDate,
        end_date |-> IF reached_class THEN form.end_date ELSE NoDate,
        internal_trainer |-> IF ~reached_trainer THEN None
                             ELSE IF internal THEN local_part(form.trainer_email)
                             ELSE "",
        external_trainer |-> IF ~reached_trainer THEN None
                             ELSE IF internal THEN "" ELSE form.supplier_name ]

RECURSIVE process_trainee_sheet(_, _, _, _)
\* process_trainee_sheet from trainee i of the form on: one row per trainee;
\* ida_class.startswith or trainer_email.partition on None raises, which ends
\* the loop with the row half written and the cursor where it was; the
\* function's except logs the error and returns (swallowed: the forms whose
\* processing raised)
process_trainee_sheet(form, rows, i, book) ==
  IF i > Len(rows)
  THEN book
  ELSE LET trainee_name == local_part(rows[i].email)
           internal == form.training_type = "Internal Training"
           listed == AddPersonnel(book, trainee_name, rows[i].department)
           reached_class == form.ida_class # None
           reached_trainer == reached_class /\ ~(internal /\ form.trainer_email = None)
           cells == TraineeCells(form, trainee_name, reached_class, reached_trainer)
           written == [listed EXCEPT !.trainee_sheet = (book.trainee_row :> cells) @@ @]
       IN  IF ~reached_trainer
           THEN [written EXCEPT !.swallowed = @ \cup { form.id }]
           ELSE process_trainee_sheet(form, rows, i + 1,
                  [ (IF internal
                     THEN AddPersonnel(written, local_part(form.trainer_email),
                                       form.trainer_department)
                     ELSE written)
                    EXCEPT !.trainee_row = @ + 1 ])

\* the body of "for form in approved_forms" that feeds the Trainee sheet and
\* the roster: the trainee rows, then the internal trainer
process_form(form, rows, book) ==
  LET after == process_trainee_sheet(form, rows, 1, book)
  IN  IF form.training_type # "Internal Training"
      THEN after
      ELSE IF form.trainer_email = None
      THEN [after EXCEPT !.swallowed = @ \cup { form.id }]
      ELSE AddPersonnel(after, local_part(form.trainer_email), form.trainer_department)

RECURSIVE process_forms(_, _, _, _, _)
process_forms(F, T, order, k, book) ==
  IF k > Len(order)
  THEN book
  ELSE process_forms(F, T, order, k + 1,
         process_form([id |-> order[k]] @@ F[order[k]], T[order[k]], book))

\* the Trainee sheet and the Personnel Costs Lookup Table of the workbook
Claim5Book(F, T, order) ==
  LET book == process_forms(F, T, order, 1, NewBook)
  IN  [ trainee_sheet |-> book.trainee_sheet,
        swallowed |-> book.swallowed,
        personnel_sheet |->
          [ r \in PersonnelFirstRow..(PersonnelFirstRow + Len(book.personnel) - 1) |->
              [ name |-> book.personnel[r - PersonnelFirstRow + 1],
                department |-> book.departments[r - PersonnelFirstRow + 1] ] ] ]

\* GET or POST /export_claim5 by user u
export_claim5(u, req) ==
  /\ UNCHANGED << forms, form_seq, children, admins, inflight, clock >>
  /\ IF ~is_admin_user(admins, u)
     THEN last' = [op |-> "export_claim5", user |-> u, req |-> req,
                   outcome |-> "unauthorized", approved_forms |-> {}]
     ELSE \E template_exists \in BOOLEAN :
            IF ~template_exists
            THEN last' = [op |-> "export_claim5", user |-> u, req |-> req,
                          outcome |-> "template_not_found", approved_forms |-> {}]
            ELSE LET order == ExportOrder(forms, ExportCandidates(forms, req))
                 IN  last' = [op |-> "export_claim5", user |-> u, req |-> req,
                              outcome |-> "exported",
                              approved_forms |-> ExportCandidates(forms, req),
                              order |-> order,
                              book |-> Claim5Book(forms, trainees, order)]

\* time passes
Tick ==
  /\ clock < MaxClock
  /\ clock' = clock + 1
  /\ last' = [op |-> "tick"]
  /\ UNCHANGED << forms, form_seq, children, admins, inflight >>

(* ------------------------------------------------------------------ *)
(* scripts/maintenance.py: the daily housekeeping job                   *)
(* ------------------------------------------------------------------ *)
\* timedelta(days=180)
RetentionDays == 180

\* the number of the day a date falls on, counted from 2024-01-01; the
\* difference of two day numbers is the timedelta between the dates
DayNumber(d) ==
  LET y == Calendar[d].year
      m == Calendar[d].month
      before == << 0, 31, 59, 90, 120, 151, 181, 212, 243, 273, 304, 334 >>
      leap(x) == x % 4 = 0 /\ (x % 100 # 0 \/ x % 400 = 0)
  IN  Cardinality({ x \in 2024..(y - 1) : leap(x) }) + 365 * (y - 2024)
      + before[m] + (IF m > 2 /\ leap(y) THEN 1 ELSE 0) + Calendar[d].day

\* purge that takes every soft-deleted form, whatever its age
old_forms_any_age(F, now) == { id \in DOMAIN F : F[id].deleted = TRUE }

\* the forms the purge selects: deleted == True and
\* deleted_datetimestamp < now - timedelta(days=180)
old_forms(F, now) ==
  { id \in DOMAIN F :
      /\ F[id].deleted = TRUE
      /\ F[id].deleted_datetimestamp # NoDate
      /\ DayNumber(F[id].deleted_datetimestamp) < DayNumber(now) - RetentionDays }

\* session.delete(form) for the given forms: the row goes, and with it, by
\* the cascade of the relationships, its rows in the four child tables
delete_forms(tables, gone) ==
  [ forms |-> [ id \in DOMAIN tables.forms \ gone |-> tables.forms[id] ],
    trainees |-> [ f \in DOMAIN tables.trainees |->
                     IF f \in gone THEN << >> ELSE tables.trainees[f] ],
    travel_expenses |-> [ f \in DOMAIN tables.travel_expenses |->
                            IF f \in gone THEN << >> ELSE tables.travel_expenses[f] ],
    material_expenses |-> [ f \in DOMAIN tables.material_expenses |->
                              IF f \in gone THEN << >>
                              ELSE tables.material_expenses[f] ],
    attachments |-> { a \in tables.attachments : a.form_id \notin gone } ]

\* permanent_delete_old_records: True and the purged tables, or, when
\* anything in it raises, False and the tables as they were (rollback)
permanent_delete_old_records(tables, now, raises) ==
  IF raises
  THEN [ ret |-> FALSE, removed |-> {}, tables |-> tables ]
  ELSE [ ret |-> TRUE, removed |-> old_forms(tables.forms, now),
         tables |-> delete_forms(tables, old_forms(tables.forms, now)) ]

\* the tasks one run of main starts: none outside production; backup_database
\* returns False on the errors it handles, and lets the others (mkdir of the
\* backup directory, unlink of an old backup) end the run
tasks_attempted(env, backup) ==
  IF env # "production" THEN {}
  ELSE IF backup = "raises" THEN {"backup"}
  ELSE {"backup", "purge", "employees"}

\* one run of scripts/maintenance.py
maintenance_main(env, backup, purge_raises, employees_ok) ==
  LET attempted == tasks_attempted(env, backup)
      before == [ forms |-> forms, trainees |-> trainees,
                  travel_expenses |-> travel_expenses,
                  material_expenses |-> material_expenses,
                  attachments |-> attachments ]
      purge == IF "purge" \in attempted
               THEN permanent_delete_old_records(before, clock, purge_raises)
               ELSE [ ret |-> FALSE, removed |-> {}, tables |-> before ]
  IN  /\ forms' = purge.tables.forms
      /\ trainees' = purge.tables.trainees
      /\ travel_expenses' = purge.tables.travel_expenses
      /\ material_expenses' = purge.tables.material_expenses
      /\ attachments' = purge.tables.attachments
      /\ UNCHANGED << form_seq, att_seq, admins, inflight, clock >>
      /\ last' = [ op |-> "maintenance", env |-> env, backup |-> backup,
                   attempted |-> attempted,
                   purged |-> "purge" \in attempted /\ purge.ret,
                   removed |-> purge.removed,
                   employees |-> "employees" \in attempted /\ employees_ok ]

(* ------------------------------------------------------------------ *)
(* Requests the model issues                                            *)
(* ------------------------------------------------------------------ *)
OneTrainee == << [name |-> "Ann", email |-> "ann@x.com", department |-> "Eng"] >>

OneTravel ==
  << [travel_date |-> strftime(1), destination |-> "Cork", traveler_type |-> "trainee",
      traveler_email |-> "ann@x.com", traveler_name |-> "Ann",
      travel_mode |-> "rail", cost |-> 100] >>

OneMaterial ==
  << [purchase_date |-> strftime(1), supplier_name |-> "ACME",
      invoice_number |-> "M-1", material_cost |-> 100] >>

\* an internal, onsite training: valid
InternalOnsite ==
  [ training_type |-> "Internal Training", training_name |-> "Safety 101",
    trainer_name |-> "J. Doe", trainer_email |-> "jd@x.com",
    trainer_department |-> "Eng", supplier_name |-> "",
    location_type |-> "Onsite", location_details |-> "",
    start_date |-> 1, end_date |-> 2, training_hours |-> 2,
    course_cost |-> NoneNum, invoice_number |-> "", concur_claim |-> "",
    training_description |-> "desc", notes |-> "",
    ida_class |-> "Class A - QQI Certified L1-10",
    trainees_data |-> JsonList(OneTrainee), files |-> << >>,
    travel_expenses_data |-> Absent, material_expenses_data |-> Absent,
    delete_attachments |-> {} ]

\* the same training with an uploaded file and one expense of each kind
WithChildren ==
  [ InternalOnsite EXCEPT
      !.files = << "a.pdf" >>,
      !.travel_expenses_data = JsonList(OneTravel),
      !.material_expenses_data = JsonList(OneMaterial) ]

SubmitPayloads == { WithChildren }

EditPayloads == { InternalOnsite }

ExportRequests ==
  { [method |-> "GET", quarters |-> {}, start_date |-> NoDate, end_date |-> NoDate],
    [method |-> "POST", quarters |-> {<<1, 2024>>}, start_date |-> 2,
     end_date |-> 2] }

(* ------------------------------------------------------------------ *)
(* Specification: the request handlers over the database                *)
(* ------------------------------------------------------------------ *)
Init ==
  /\ forms = << >>
  /\ form_seq = 0
  /\ trainees = [ f \in FormIds |-> << >> ]
  /\ travel_expenses = [ f \in FormIds |-> << >> ]
  /\ material_expenses = [ f \in FormIds |-> << >> ]
  /\ attachments = {}
  /\ att_seq = 0
  /\ admins = {"a@x.com"}
  /\ clock = 1
  /\ inflight = [ r \in Requests |-> [pc |-> "idle"] ]
  /\ last = [op |-> "init"]

Submit == \E u \in Users, inp \in SubmitPayloads : submit_form(u, inp, FALSE)

Edit == \E u \in Users, id \in FormIds, inp \in EditPayloads :
          edit_form(u, id, inp, FALSE)

Approve == \E u \in Users, id \in FormIds : approve_training(u, id)

Delete == \E u \in Users, id \in FormIds : delete_training_form(u, id)

Recover == \E u \in Users, id \in FormIds : recover_training_form_route(u, id)

ManageAdmins == \E u \in Users, what \in {"add_admin", "remove_admin"} :
                  manage_admins(u, what, "a@x.com")

Export == \E u \in Users, req \in ExportRequests : export_claim5(u, req)

Next ==
  \/ Submit
  \/ Edit
  \/ Approve
  \/ Delete
  \/ Recover
  \/ ManageAdmins
  \/ Export
  \/ Tick

Spec == Init /\ [][Next]_vars

(* ------------------------------------------------------------------ *)
(* Specification: the store functions of models.py called directly      *)
(* ------------------------------------------------------------------ *)
\* form_data dictionaries as a caller prepares them
StoreData ==
  LET d == prepare_form_data(InternalOnsite) @@ [submitter |-> "b@x.com"]
  IN  { d, [approved |-> TRUE] @@ d }

CallInsertForm ==
  \E fd \in StoreData :
    LET ins == insert_training_form(forms, form_seq, fd, clock)
    IN  /\ form_seq < MaxForms
        /\ forms' = ins.forms
        /\ form_seq' = ins.id
        /\ last' = [op |-> "insert_training_form", form_id |-> ins.id]
        /\ UNCHANGED << children, admins, inflight, clock >>

CallUpdateForm ==
  \E id \in FormIds, fd \in StoreData :
    LET upd == update_training_form(forms, id, fd)
    IN  /\ forms' = upd.forms
        /\ last' = [op |-> "update_training_form", form_id |-> id, ret |-> upd.ret]
        /\ UNCHANGED << form_seq, children, admins, inflight, clock >>

CallSoftDelete ==
  \E id \in FormIds :
    LET res == soft_delete_training_form(forms, id, clock)
    IN  /\ forms' = res.forms
        /\ last' = [op |-> "soft_delete_training_form", form_id |-> id, ret |-> res.ret]
        /\ UNCHANGED << form_seq, children, admins, inflight, clock >>

CallRecover ==
  \E id \in FormIds :
    LET res == recover_training_form(forms, id)
    IN  /\ forms' = res.forms
        /\ last' = [op |-> "recover_training_form", form_id |-> id, ret |-> res.ret]
        /\ UNCHANGED << form_seq, children, admins, inflight, clock >>

CallInsertTrainees ==
  \E id \in FormIds :
    LET res == insert_trainees(trainees, id, OneTrainee)
    IN  /\ Len(trainees[id]) < MaxForms
        /\ trainees' = res.rows
        /\ last' = [op |-> "insert_trainees", form_id |-> id, ret |-> res.ret]
        /\ UNCHANGED << forms, form_seq, travel_expenses, material_expenses,
                        attachments, att_seq, admins, inflight, clock >>

NextStore ==
  \/ CallInsertForm
  \/ CallUpdateForm
  \/ CallSoftDelete
  \/ CallRecover
  \/ CallInsertTrainees
  \/ Tick

SpecStore == Init /\ [][NextStore]_vars

(* ------------------------------------------------------------------ *)
(* Specification: insert_training_form and update_training_form over    *)
(* complete and partial dictionaries                                    *)
(* ------------------------------------------------------------------ *)
\* complete dictionaries, saved as a draft or not
DraftData ==
  LET d == prepare_form_data(InternalOnsite) @@ [submitter |-> "b@x.com"]
  IN  { d, [is_draft |-> TRUE] @@ d }

\* dictionaries passed to update_training_form: complete ones, and partial
\* ones with a placeholder name, a key that names no column, an explicit flag
UpdateData ==
  DraftData \cup
  { [training_name |-> "NA", end_date |-> strftime(3), department |-> "Eng"],
    [notes |-> "N/A", ready_for_approval |-> TRUE] }

CallInsertAny ==
  \E fd \in DraftData :
    LET ins == insert_training_form(forms, form_seq, fd, clock)
    IN  /\ form_seq < MaxForms
        /\ forms' = ins.forms
        /\ form_seq' = ins.id
        /\ last' = [op |-> "insert_training_form", form_id |-> ins.id, data |-> fd]
        /\ UNCHANGED << children, admins, inflight, clock >>

CallUpdateAny ==
  \E id \in FormIds, fd \in UpdateData :
    LET upd == update_training_form(forms, id, fd)
    IN  /\ forms' = upd.forms
        /\ last' = [op |-> "update_training_form", form_id |-> id, data |-> fd,
                    ret |-> upd.ret]
        /\ UNCHANGED << form_seq, children, admins, inflight, clock >>

NextUpdate ==
  \/ CallInsertAny
  \/ CallUpdateAny
  \/ CallInsertTrainees

SpecUpdate == Init /\ [][NextUpdate]_vars

(* ------------------------------------------------------------------ *)
(* Specification: intake, /submit and /edit over many request bodies    *)
(* ------------------------------------------------------------------ *)
FileChoices == { << >>, << "a.pdf" >>, << "" >> }

\* every radio selection with every conditional text field filled in, as a
\* browser sends them after the user switched the radio buttons back and forth
FilledPayloads ==
  { [ InternalOnsite EXCEPT
        !.training_type = t, !.location_type = l,
        !.supplier_name = "ACME", !.location_details = "Cork", !.files = f,
        !.course_cost = 100, !.invoice_number = "INV-1", !.concur_claim = "CC-1" ]
    : t \in TRAINING_TYPES, l \in LOCATION_TYPES, f \in FileChoices }

\* the same with the end date before the start date
ReversedPayloads ==
  { [ inp EXCEPT !.start_date = 2, !.end_date = 1 ]
    : inp \in { p \in FilledPayloads : p.files = << "a.pdf" >> } }

\* an external, onsite training with every external field filled in: valid
ExternalOnsite ==
  [ InternalOnsite EXCEPT
      !.training_type = "External Training", !.trainer_name = "",
      !.trainer_email = "", !.trainer_department = "",
      !.supplier_name = "ACME", !.course_cost = 100,
      !.invoice_number = "INV-1", !.concur_claim = "CC-1" ]

\* request bodies that leave one conditionally required field blank
SparsePayloads ==
  { InternalOnsite,
    [InternalOnsite EXCEPT !.trainer_name = ""],
    [InternalOnsite EXCEPT !.trainer_email = "", !.trainer_department = ""],
    [InternalOnsite EXCEPT !.training_hours = NoneNum],
    ExternalOnsite,
    [ExternalOnsite EXCEPT !.course_cost = NoneNum],
    [ExternalOnsite EXCEPT !.course_cost = 0 - 5],
    [ExternalOnsite EXCEPT !.supplier_name = ""],
    [ExternalOnsite EXCEPT !.invoice_number = "  "],
    [ExternalOnsite EXCEPT !.concur_claim = ""] }

\* request bodies with a placeholder value, an undecided or unknown class
ReadinessPayloads ==
  { [InternalOnsite EXCEPT !.notes = "NA"],
    [InternalOnsite EXCEPT !.training_name = " NA "],
    [InternalOnsite EXCEPT !.ida_class = "Not sure"],
    [InternalOnsite EXCEPT !.ida_class = "NOT SURE"],
    [ExternalOnsite EXCEPT !.course_cost = 1111] }

IntakePayloads ==
  FilledPayloads \cup ReversedPayloads \cup SparsePayloads \cup ReadinessPayloads

IntakeIds == 1..MaxIntakeForms

IntakeSubmit ==
  \E inp \in IntakePayloads, save_fails \in BOOLEAN :
    /\ form_seq < MaxIntakeForms
    /\ submit_form("b@x.com", inp, save_fails)

IntakeEdit ==
  \E id \in IntakeIds, inp \in IntakePayloads, del \in {{}, 1..MaxAttachments},
     save_fails \in BOOLEAN :
    edit_form("b@x.com", id, [inp EXCEPT !.delete_attachments = del], save_fails)

NextIntake ==
  \/ IntakeSubmit
  \/ IntakeEdit

SpecIntake == Init /\ [][NextIntake]_vars

(* ------------------------------------------------------------------ *)
(* Specification: the child bulk operations of models.py                *)
(* ------------------------------------------------------------------ *)
\* a trainee without a department, and one without an email
TraineeBob == [name |-> "Bob", email |-> "bob@x.com"]

TraineeNoEmail == [name |-> "Cy"]

TraineeBatches ==
  { << >>, OneTrainee, OneTrainee \o << TraineeBob >>,
    OneTrainee \o << TraineeNoEmail >> }

\* a travel expense without its destination, and one with an unreadable date
TravelNoDestination ==
  [travel_date |-> strftime(1), traveler_type |-> "trainee",
   traveler_email |-> "ann@x.com", traveler_name |-> "Ann", travel_mode |-> "rail"]

TravelBadDate == [OneTravel[1] EXCEPT !.travel_date = strftime(99)]

TravelBatches ==
  { << >>, OneTravel, OneTravel \o << TravelNoDestination >>, << TravelBadDate >> }

MaterialNoInvoice ==
  [purchase_date |-> strftime(1), supplier_name |-> "ACME", material_cost |-> 100]

MaterialBatches ==
  { << >>, OneMaterial, OneMaterial \o << MaterialNoInvoice >> }

\* whether the call repeats the previous one: same function, form and list
Again(op, id, X) ==
  last.op = op /\ last.form_id = id /\ last.data = X

BulkInsertTrainees ==
  \E id \in FormIds, X \in TraineeBatches :
    LET res == insert_trainees(trainees, id, X)
    IN  /\ Len(res.rows[id]) <= MaxRows
        /\ trainees' = res.rows
        /\ last' = [op |-> "insert_trainees", form_id |-> id, data |-> X,
                    ret |-> res.ret, again |-> Again("insert_trainees", id, X)]
        /\ UNCHANGED << forms, form_seq, travel_expenses, material_expenses,
                        attachments, att_seq, admins, inflight, clock >>

BulkUpdateTrainees ==
  \E id \in FormIds, X \in TraineeBatches :
    LET res == update_trainees(trainees, id, X)
    IN  /\ Len(res.rows[id]) <= MaxRows
        /\ trainees' = res.rows
        /\ last' = [op |-> "update_trainees", form_id |-> id, data |-> X,
                    ret |-> res.ret, again |-> Again("update_trainees", id, X)]
        /\ UNCHANGED << forms, form_seq, travel_expenses, material_expenses,
                        attachments, att_seq, admins, inflight, clock >>

BulkInsertTravel ==
  \E id \in FormIds, X \in TravelBatches :
    LET res == insert_travel_expenses(travel_expenses, id, X)
    IN  /\ Len(res.rows[id]) <= MaxRows
        /\ travel_expenses' = res.rows
        /\ last' = [op |-> "insert_travel_expenses", form_id |-> id, data |-> X,
                    ret |-> res.ret,
                    again |-> Again("insert_travel_expenses", id, X)]
        /\ UNCHANGED << forms, form_seq, trainees, material_expenses,
                        attachments, att_seq, admins, inflight, clock >>

BulkUpdateTravel ==
  \E id \in FormIds, X \in TravelBatches :
    LET res == update_travel_expenses(travel_expenses, id, X)
    IN  /\ Len(res.rows[id]) <= MaxRows
        /\ travel_expenses' = res.rows
        /\ last' = [op |-> "update_travel_expenses", form_id |-> id, data |-> X,
                    ret |-> res.ret,
                    again |-> Again("update_travel_expenses", id, X)]
        /\ UNCHANGED << forms, form_seq, trainees, material_expenses,
                        attachments, att_seq, admins, inflight, clock >>

BulkInsertMaterial ==
  \E id \in FormIds, X \in MaterialBatches :
    LET res == insert_material_expenses(material_expenses, id, X)
    IN  /\ Len(res.rows[id]) <= MaxRows
        /\ material_expenses' = res.rows
        /\ last' = [op |-> "insert_material_expenses", form_id |-> id, data |-> X,
                    ret |-> res.ret,
                    again |-> Again("insert_material_expenses", id, X)]
        /\ UNCHANGED << forms, form_seq, trainees, travel_expenses,
                        attachments, att_seq, admins, inflight, clock >>

BulkUpdateMaterial ==
  \E id \in FormIds, X \in MaterialBatches :
    LET res == update_material_expenses(material_expenses, id, X)
    IN  /\ Len(res.rows[id]) <= MaxRows
        /\ material_expenses' = res.rows
        /\ last' = [op |-> "update_material_expenses", form_id |-> id, data |-> X,
                    ret |-> res.ret,
                    again |-> Again("update_material_expenses", id, X)]
        /\ UNCHANGED << forms, form_seq, trainees, travel_expenses,
                        attachments, att_seq, admins, inflight, clock >>

NextChildren ==
  \/ BulkInsertTrainees
  \/ BulkUpdateTrainees
  \/ BulkInsertTravel
  \/ BulkUpdateTravel
  \/ BulkInsertMaterial
  \/ BulkUpdateMaterial

SpecChildren == Init /\ [][NextChildren]_vars

(* ------------------------------------------------------------------ *)
(* Specification: submit, approve and export over forms that share      *)
(* trainees and trainers, submitted in several quarters, and over       *)
(* export requests with quarters, a date range, both or neither         *)
(* ------------------------------------------------------------------ *)
TraineeAnnOps == [name |-> "Ann", email |-> "ann@y.com", department |-> "Ops"]

\* request bodies for the export: one trainee; a trainer who is also a
\* trainee elsewhere; a trainee list that json.loads rejects (no trainee is
\* stored); a request without the hidden trainer_email field; one person
\* listed twice in one form
ExportPayloads ==
  { InternalOnsite,
    [InternalOnsite EXCEPT
       !.training_name = "Lean 201", !.trainer_email = "ann@y.com",
       !.trainer_department = "HR",
       !.trainees_data = JsonList(<< TraineeBob, TraineeAnnOps >>)],
    [ExternalOnsite EXCEPT !.trainees_data = Malformed],
    [InternalOnsite EXCEPT
       !.training_name = "Legacy 1", !.trainer_email = None,
       !.trainer_department = None,
       !.trainees_data = JsonList(OneTrainee \o << TraineeBob >>)],
    [ExternalOnsite EXCEPT
       !.training_name = "Welding",
       !.trainees_data = JsonList(OneTrainee \o << TraineeAnnOps >>)] }

\* the last date the clock of this specification reaches
MaxSelectClock == 3

\* the GET, and JSON bodies of POST /export_claim5: quarters, a date range,
\* both, neither
SelectRequests ==
  { [method |-> "GET", quarters |-> {}, start_date |-> NoDate, end_date |-> NoDate],
    [method |-> "POST", quarters |-> {<<1, 2024>>}, start_date |-> NoDate,
     end_date |-> NoDate],
    [method |-> "POST", quarters |-> {<<2, 2024>>}, start_date |-> 1, end_date |-> 2],
    [method |-> "POST", quarters |-> {<<1, 2024>>, <<2, 2024>>}, start_date |-> 3,
     end_date |-> 3],
    [method |-> "POST", quarters |-> {}, start_date |-> 2, end_date |-> 3],
    [method |-> "POST", quarters |-> {}, start_date |-> 1, end_date |-> 1],
    [method |-> "POST", quarters |-> {}, start_date |-> NoDate, end_date |-> NoDate] }

\* a day passes between two requests
SelectTick ==
  /\ clock < MaxSelectClock
  /\ clock' = clock + 1
  /\ last' = [op |-> "tick"]
  /\ UNCHANGED << forms, form_seq, children, admins, inflight >>

NextExport ==
  \/ \E inp \in ExportPayloads : submit_form("b@x.com", inp, FALSE)
  \/ \E id \in FormIds : approve_training("a@x.com", id)
  \/ \E req \in SelectRequests : export_claim5("a@x.com", req)
  \/ SelectTick

SpecExport == Init /\ [][NextExport]_vars

(* ------------------------------------------------------------------ *)
(* Specification: /submit and /edit over bodies whose child fields are  *)
(* absent, malformed, well formed, or hold a row the insert rejects     *)
(* ------------------------------------------------------------------ *)
WritePayloads ==
  { [ InternalOnsite EXCEPT
        !.trainees_data = people, !.travel_expenses_data = travel,
        !.material_expenses_data = material ]
    : people \in { Absent, Malformed, JsonList(OneTrainee),
                   JsonList(<< TraineeBob >> \o << TraineeNoEmail >>) },
      travel \in { Absent, Malformed, JsonList(OneTravel),
                   JsonList(<< TravelBadDate >>) },
      material \in { Absent, JsonList(OneMaterial \o << MaterialNoInvoice >>) } }

NextWrite ==
  \/ \E inp \in WritePayloads :
       /\ form_seq < MaxIntakeForms
       /\ submit_form("b@x.com", inp, FALSE)
  \/ \E id \in FormIds, inp \in WritePayloads : edit_form("b@x.com", id, inp, FALSE)

SpecWrite == Init /\ [][NextWrite]_vars

(* ------------------------------------------------------------------ *)
(* Specification: the form lifecycle over the retention window, with    *)
(* the housekeeping job                                                 *)
(* ------------------------------------------------------------------ *)
\* the last date the clock of this specification reaches
MaxRetentionClock == 6

\* time passes, by the steps of the calendar
RetentionTick ==
  /\ clock < MaxRetentionClock /\ clock < Len(Calendar)
  /\ clock' = clock + 1
  /\ last' = [op |-> "tick"]
  /\ UNCHANGED << forms, form_seq, children, admins, inflight >>

NextRetention ==
  \/ submit_form("b@x.com", WithChildren, FALSE)
  \/ \E id \in FormIds : edit_form("b@x.com", id, InternalOnsite, FALSE)
  \/ \E id \in FormIds : delete_training_form("b@x.com", id)
  \/ \E id \in FormIds : recover_training_form_route("b@x.com", id)
  \/ \E env \in {"development", "production"},
        backup \in {"done", "returns False", "raises"},
        purge_raises \in BOOLEAN, employees_ok \in BOOLEAN :
       maintenance_main(env, backup, purge_raises, employees_ok)
  \/ RetentionTick

SpecRetention == Init /\ [][NextRetention]_vars

(* ------------------------------------------------------------------ *)
(* Specification: two /edit requests in progress at the same time       *)
(* ------------------------------------------------------------------ *)
\* bodies that change one column of the submitted form each, or both, and
\* replace the trainees and the travel expenses
RacePayloads ==
  { [ InternalOnsite EXCEPT
        !.training_name = "Safety 102",
        !.travel_expenses_data = JsonList(OneTravel) ],
    [ InternalOnsite EXCEPT
        !.training_hours = 5,
        !.trainees_data = JsonList(<< TraineeBob, TraineeAnnOps >>),
        !.travel_expenses_data = JsonList(<< >>) ],
    [ InternalOnsite EXCEPT
        !.training_name = "Safety 103", !.training_hours = 7,
        !.trainees_data = JsonList(<< TraineeBob >>) ] }

NextRace ==
  \/ /\ form_seq < MaxIntakeForms
     /\ submit_form("b@x.com", InternalOnsite, FALSE)
  \/ \E r \in Requests, id \in FormIds, inp \in RacePayloads :
       edit_load(r, "b@x.com", id, inp)
  \/ \E r \in Requests : edit_flush(r)
  \/ \E r \in Requests : edit_children(r)

SpecRace == Init /\ [][NextRace]_vars

(* ------------------------------------------------------------------ *)
(* Properties                                                           *)
(* ------------------------------------------------------------------ *)
\* the rows of every table other than training_forms
ChildRows == << trainees, travel_expenses, material_expenses, attachments >>

\* C1: soft_delete_training_form(id) returns True exactly when a row with
\* that id exists and is not deleted, and then sets deleted, the timestamp
\* (now) and approved = False in one step; otherwise it returns False and
\* changes nothing, so a second soft delete does not refresh the timestamp.
SoftDeleteContract ==
  [][ last'.op = "soft_delete_training_form" =>
        LET id == last'.form_id
        IN  /\ last'.ret = (id \in DOMAIN forms /\ forms[id].deleted = FALSE)
            /\ last'.ret =>
                 forms' = [forms EXCEPT ![id].deleted = TRUE,
                                        ![id].deleted_datetimestamp = clock,
                                        ![id].approved = FALSE]
            /\ ~last'.ret => forms' = forms
            /\ ChildRows' = ChildRows ]_vars

\* a soft delete of an already deleted row, at a later time, was refused
SoftDeleteTwice ==
  /\ last.op = "soft_delete_training_form"
  /\ last.ret = FALSE
  /\ last.form_id \in DOMAIN forms
  /\ forms[last.form_id].deleted
  /\ forms[last.form_id].deleted_datetimestamp < clock

\* C2: recover_training_form(id) returns True exactly when a row with that
\* id exists and is deleted, and then clears deleted and the timestamp and
\* nothing else; otherwise it returns False and changes nothing.
RecoverContract ==
  [][ last'.op = "recover_training_form" =>
        LET id == last'.form_id
        IN  /\ last'.ret = (id \in DOMAIN forms /\ forms[id].deleted = TRUE)
            /\ last'.ret =>
                 forms' = [forms EXCEPT ![id].deleted = FALSE,
                                        ![id].deleted_datetimestamp = NoDate]
            /\ ~last'.ret => forms' = forms
            /\ ChildRows' = ChildRows ]_vars

\* a deleted row was recovered
RecoverHappened ==
  /\ last.op = "recover_training_form"
  /\ last.ret = TRUE
  /\ forms[last.form_id].deleted = FALSE
  /\ forms[last.form_id].deleted_datetimestamp = NoDate

\* C3: soft delete followed immediately by recovery gives back the row as
\* it was before the deletion, except that approved is False, and leaves
\* every other form and every child row as it was.
SoftDeleteRecoverRoundTrip ==
  [][ /\ (last'.op = "delete" /\ last'.outcome = "deleted") =>
           /\ last'.form_data = forms[last'.form_id]
           /\ ChildRows' = ChildRows
           /\ \A j \in DOMAIN forms \ {last'.form_id} : forms'[j] = forms[j]
      /\ ( /\ last.op = "delete" /\ last.outcome = "deleted"
           /\ last'.op = "recover" /\ last'.outcome = "recovered"
           /\ last'.form_id = last.form_id ) =>
           /\ forms' = [forms EXCEPT ![last.form_id] =
                          [last.form_data EXCEPT !.approved = FALSE]]
           /\ forms'[last.form_id].deleted = FALSE
           /\ ChildRows' = ChildRows ]_vars

\* an approved form with child rows of every kind was deleted and recovered
RoundTripHappened ==
  /\ last.op = "recover" /\ last.outcome = "recovered"
  /\ last.form_data.deleted = TRUE
  /\ forms[last.form_id].approved = FALSE
  /\ trainees[last.form_id] # << >>
  /\ travel_expenses[last.form_id] # << >>
  /\ material_expenses[last.form_id] # << >>
  /\ \E a \in attachments : a.form_id = last.form_id

\* C4: no soft-deleted form is among the forms an export writes.
ExportOnlyNonDeleted ==
  last.op = "export_claim5" =>
    \A id \in last.approved_forms : forms[id].deleted = FALSE

\* the pages a listing of the current table can have
Pages == 1..((Cardinality(DOMAIN forms) \div PageSize) + 1)

\* get_all_training_forms with the given delete_status, over all its pages
Listing(delete_status) ==
  UNION { get_all_training_forms(forms, NoDate, NoDate, "", "",
                                 delete_status, p).forms : p \in Pages }

\* C5: the default listing never returns a deleted form, 'deleted' returns
\* only deleted forms, 'all' returns forms whatever their deleted state; a
\* form approved and then soft-deleted is listed under 'all' with
\* approved = False and is not listed by default.
ListingByDeleteStatus ==
  /\ [](/\ \A ds \in {"", "not_deleted"} :
             Listing(ds) = { id \in DOMAIN forms : forms[id].deleted = FALSE }
        /\ Listing("deleted") = { id \in DOMAIN forms : forms[id].deleted = TRUE }
        /\ Listing("all") = DOMAIN forms)
  /\ [][ ( /\ last.op = "approve" /\ last.outcome = "toggled"
           /\ last.was_approved = FALSE
           /\ last'.op = "delete" /\ last'.outcome = "deleted"
           /\ last'.form_id = last.form_id ) =>
           /\ last.form_id \in Listing("all")'
           /\ forms'[last.form_id].approved = FALSE
           /\ last.form_id \notin Listing("")' ]_vars

\* a form that was approved has just been soft-deleted
ApprovedThenDeleted ==
  /\ last.op = "delete" /\ last.outcome = "deleted"
  /\ last.form_data.approved = TRUE
  /\ last.form_id \in Listing("all")
  /\ last.form_id \notin Listing("")

\* C6: /approve by an admin on an existing form negates approved and changes
\* nothing else; two consecutive approvals restore the original value; an
\* approval of an id that does not exist changes nothing.
ApproveToggles ==
  [][ last'.op = "approve" =>
        LET id == last'.form_id
        IN  /\ (last'.user \in admins /\ id \in DOMAIN forms) =>
                 /\ last'.outcome = "toggled"
                 /\ last'.was_approved = forms[id].approved
                 /\ forms' = [forms EXCEPT ![id].approved = ~forms[id].approved]
            /\ (last'.user \in admins /\ id \notin DOMAIN forms) =>
                 /\ last'.outcome = "not found"
                 /\ forms' = forms
            /\ ( /\ last.op = "approve" /\ last.outcome = "toggled"
                 /\ last.form_id = id /\ last'.outcome = "toggled" ) =>
                 forms'[id].approved = last.was_approved
            /\ ChildRows' = ChildRows ]_vars

\* an approved form with child rows has just been un-approved by an admin
ApprovedTwice ==
  /\ last.op = "approve" /\ last.outcome = "toggled"
  /\ last.was_approved = TRUE
  /\ forms[last.form_id].approved = FALSE
  /\ trainees[last.form_id] # << >>

\* C7: a request by a user who is not in the Admin table when it is made
\* leaves approved unchanged through /approve, and a /delete or /recover by
\* a user who is neither in the Admin table nor the form's submitter leaves
\* the form unchanged; a removed admin is refused on the next request.
OnlyAdminOrSubmitter ==
  [][ /\ (last'.op = "approve" /\ last'.user \notin admins) =>
           /\ last'.outcome = "403"
           /\ forms' = forms
      /\ ( /\ last'.op \in {"delete", "recover"}
           /\ last'.form_id \in DOMAIN forms
           /\ last'.user \notin admins
           /\ forms[last'.form_id].submitter # last'.user ) =>
           /\ last'.outcome = "no permission"
           /\ forms' = forms
      /\ ( /\ last.op = "manage_admins" /\ last.outcome = "done"
           /\ last.what = "remove_admin"
           /\ last'.op = "approve" /\ last'.user = last.email ) =>
           /\ last'.outcome = "403"
           /\ forms' = forms ]_vars

\* a user whose admin row was removed has been refused an approval
RevokedAdminRefused ==
  /\ last.op = "approve" /\ last.outcome = "403"
  /\ last.user = "a@x.com"
  /\ last.form_id \in DOMAIN forms

\* C8: every persisted row has supplier_name null when Internal, trainer_name
\* null when External and location_details null unless Offsite.
InapplicableFieldsNull ==
  \A id \in DOMAIN forms :
    /\ forms[id].training_type = "Internal Training" => forms[id].supplier_name = None
    /\ forms[id].training_type = "External Training" => forms[id].trainer_name = None
    /\ forms[id].location_type # "Offsite" => forms[id].location_details = None

\* an edit switched an External form to Internal although the request still
\* carried a supplier name
EditSwitchedType ==
  /\ last.op = "edit" /\ last.outcome = "success"
  /\ last.existing_form # NoRow
  /\ last.existing_form.training_type = "External Training"
  /\ last.existing_form.location_type = "Offsite"
  /\ last.inp.training_type = "Internal Training"
  /\ last.inp.location_type = "Onsite"
  /\ last.inp.supplier_name # ""
  /\ last.inp.location_details # ""

\* C9: a submit or edit whose end date is before its start date is rejected
\* and writes nothing, so every persisted row has end_date >= start_date.
EndBeforeStartRejected ==
  [][ /\ ( /\ last'.op \in {"submit", "edit"}
           /\ last'.inp.end_date < last'.inp.start_date ) =>
           /\ last'.outcome = "invalid"
           /\ forms' = forms
           /\ ChildRows' = ChildRows
      /\ \A id \in DOMAIN forms' : forms'[id].end_date >= forms'[id].start_date ]_vars

\* an edit of an existing form with reversed dates has been rejected
ReversedEditRejected ==
  /\ last.op = "edit" /\ last.outcome = "invalid"
  /\ last.inp.end_date < last.inp.start_date
  /\ last.form_id \in DOMAIN forms

\* C10: every persisted Virtual form has at least one Attachment row.
VirtualHasAttachment ==
  \A id \in DOMAIN forms :
    forms[id].location_type = "Virtual" =>
      \E a \in attachments : a.form_id = id

\* text that is neither None nor blank
NonEmpty(s) == s # None /\ strip(s) # ""

\* C11: /submit and /edit accept an Internal request only with trainer_name,
\* trainer_email, trainer_department and training_hours non-empty, and an
\* External request only with supplier_name, invoice_number and concur_claim
\* non-empty and course_cost present and >= 0; an External request with a
\* blank course cost is rejected with "Course Cost is required for external
\* training.", and an Internal request is not rejected for a blank course cost.
ConditionalRequirementTable ==
  last.op \in {"submit", "edit"} =>
    LET inp == last.inp
        accepted == last.outcome # "invalid"
    IN  /\ (accepted /\ inp.training_type = "Internal Training") =>
              /\ NonEmpty(inp.trainer_name)
              /\ NonEmpty(inp.trainer_email)
              /\ NonEmpty(inp.trainer_department)
              /\ inp.training_hours # NoneNum
        /\ (accepted /\ inp.training_type = "External Training") =>
              /\ NonEmpty(inp.supplier_name)
              /\ NonEmpty(inp.invoice_number)
              /\ NonEmpty(inp.concur_claim)
              /\ inp.course_cost # NoneNum /\ inp.course_cost >= 0
        /\ (inp.training_type = "External Training" /\ inp.course_cost = NoneNum) =>
              /\ ~accepted
              /\ "Course Cost is required for external training."
                    \in course_cost_errors(inp)
        /\ inp.training_type = "Internal Training" => course_cost_errors(inp) = {}
\* C12: update_trainees is idempotent: a second update_trainees(form_id, X)
\* right after the first returns what the first returned and leaves the
\* form's trainee rows (name, email, department), hence its trainee set,
\* exactly as the first call left them.
UpdateTraineesIdempotent ==
  [][ (last'.op = "update_trainees" /\ last'.again) =>
        /\ last'.ret = last.ret
        /\ trainees'[last'.form_id] = trainees[last'.form_id]
        /\ { trainees'[last'.form_id][i] : i \in 1..Len(trainees'[last'.form_id]) }
             = { trainees[last'.form_id][i] : i \in 1..Len(trainees[last'.form_id]) }
    ]_vars

\* update_trainees ran twice in a row with a list of two trainees
UpdatedTraineesTwice ==
  /\ last.op = "update_trainees"
  /\ last.again
  /\ last.ret
  /\ Len(last.data) = 2
  /\ Len(trainees[last.form_id]) = 2

BulkOps ==
  {"insert_trainees", "update_trainees", "insert_travel_expenses",
   "update_travel_expenses", "insert_material_expenses", "update_material_expenses"}

\* the table a bulk operation works on, before (FALSE) or after (TRUE) the step
TableOf(op, after) ==
  CASE op \in {"insert_trainees", "update_trainees"} ->
         IF after THEN trainees' ELSE trainees
    [] op \in {"insert_travel_expenses", "update_travel_expenses"} ->
         IF after THEN travel_expenses' ELSE travel_expenses
    [] OTHER -> IF after THEN material_expenses' ELSE material_expenses

\* row r stores list element d: the keys of d, a parsed date, the default department
Stores(op, r, d) ==
  CASE op \in {"insert_trainees", "update_trainees"} ->
         /\ r.name = d["name"] /\ r.email = d["email"]
         /\ r.department = IF "department" \in DOMAIN d
                           THEN d["department"] ELSE "Engineering"
    [] op \in {"insert_travel_expenses", "update_travel_expenses"} ->
         /\ r.destination = d["destination"]
         /\ r.traveler_email = d["traveler_email"]
         /\ r.travel_date = d["travel_date"].v
    [] OTHER ->
         /\ r.supplier_name = d["supplier_name"]
         /\ r.invoice_number = d["invoice_number"]
         /\ r.purchase_date = d["purchase_date"].v

\* C13: after a successful update_* (form_id, X) the form's collection is
\* exactly the rows of X, after a successful insert_* (form_id, X) it is the
\* rows already present followed by the rows of X, and in both cases the child
\* rows of every other form, and the other tables, are unchanged.
BulkFrameEffect ==
  [][ (last'.op \in BulkOps /\ last'.ret) =>
        LET op == last'.op
            id == last'.form_id
            X == last'.data
            old == TableOf(op, FALSE)
            new == TableOf(op, TRUE)
            kept == IF op \in {"update_trainees", "update_travel_expenses",
                               "update_material_expenses"}
                    THEN 0 ELSE Len(old[id])
        IN  /\ Len(new[id]) = kept + Len(X)
            /\ \A i \in 1..kept : new[id][i] = old[id][i]
            /\ \A i \in 1..Len(X) : Stores(op, new[id][kept + i], X[i])
            /\ \A j \in FormIds \ {id} : new[j] = old[j]
            /\ \A j \in FormIds \ {id} :
                 /\ trainees'[j] = trainees[j]
                 /\ travel_expenses'[j] = travel_expenses[j]
                 /\ material_expenses'[j] = material_expenses[j]
            /\ (op \notin {"insert_trainees", "update_trainees"}) =>
                 trainees' = trainees
            /\ (op \notin {"insert_travel_expenses", "update_travel_expenses"}) =>
                 travel_expenses' = travel_expenses
            /\ (op \notin {"insert_material_expenses", "update_material_expenses"}) =>
                 material_expenses' = material_expenses
            /\ forms' = forms /\ attachments' = attachments
    ]_vars

\* an insert appended to a form that had a row, an update replaced two rows
\* by one, and the other form kept its rows of every kind
BulkReplacedAndAppended ==
  /\ last.op = "update_travel_expenses" /\ last.ret
  /\ Len(last.data) = 1
  /\ Len(travel_expenses[last.form_id]) = 1
  /\ Len(trainees[last.form_id]) = 2
  /\ \E j \in FormIds \ {last.form_id} :
       /\ Len(travel_expenses[j]) = 2
       /\ Len(trainees[j]) = 1
       /\ Len(material_expenses[j]) = 2

\* element d of a list makes the operation raise: a key read with d["k"] is
\* missing, or the NOT NULL date of the row cannot be parsed
RowRaises(op, d) ==
  CASE op \in {"insert_trainees", "update_trainees"} ->
         {"name", "email"} \ DOMAIN d # {}
    [] op \in {"insert_travel_expenses", "update_travel_expenses"} ->
         \/ {"travel_date", "destination", "traveler_type", "traveler_email",
             "traveler_name", "travel_mode"} \ DOMAIN d # {}
         \/ d["travel_date"].v \notin Dates
    [] OTHER ->
         \/ {"purchase_date", "supplier_name", "invoice_number",
             "material_cost"} \ DOMAIN d # {}
         \/ d["purchase_date"].v \notin Dates

\* C14: each child bulk operation is all-or-nothing: when any row of the list
\* raises, insert_* / update_* returns False and every stored collection is
\* exactly what it was before the call (no row of the batch inserted, none of
\* the existing rows deleted); it returns False in no other case.
BulkAllOrNothing ==
  [][ last'.op \in BulkOps =>
        LET raises == \E i \in 1..Len(last'.data) : RowRaises(last'.op, last'.data[i])
        IN  /\ last'.ret = ~raises
            /\ ~last'.ret =>
                 /\ trainees' = trainees
                 /\ travel_expenses' = travel_expenses
                 /\ material_expenses' = material_expenses
                 /\ forms' = forms
    ]_vars

\* an update whose second row lacks a key failed on a form holding rows
FailedUpdateKeptRows ==
  /\ last.op = "update_trainees"
  /\ ~last.ret
  /\ Len(last.data) = 2
  /\ Len(trainees[last.form_id]) = 2
  /\ Len(travel_expenses[last.form_id]) = 1
\* C15: update_training_form(id, data) returns False and changes nothing when
\* no form has that id; otherwise it returns True, overwrites every column
\* named in data (dates parsed), leaves the other columns, the other forms and
\* the child rows alone, and sets ready_for_approval to the value derived from
\* data unless data itself contains ready_for_approval.
UpdateFormContract ==
  [][ last'.op = "update_training_form" =>
        LET id == last'.form_id
            fd == last'.data
        IN  IF id \notin DOMAIN forms
            THEN last'.ret = FALSE /\ forms' = forms /\ ChildRows' = ChildRows
            ELSE /\ last'.ret = TRUE
                 /\ DOMAIN forms' = DOMAIN forms
                 /\ \A j \in DOMAIN forms \ {id} : forms'[j] = forms[j]
                 /\ \A k \in DOMAIN forms[id] \ {"ready_for_approval"} :
                      forms'[id][k] =
                        IF k \notin DOMAIN fd THEN forms[id][k]
                        ELSE IF k \in {"start_date", "end_date"} THEN fd[k].v
                        ELSE fd[k]
                 /\ forms'[id].ready_for_approval =
                      IF "ready_for_approval" \in DOMAIN fd
                      THEN fd["ready_for_approval"]
                      ELSE calculate_ready_for_approval(fd)
                 /\ ChildRows' = ChildRows
    ]_vars

\* a partial update with a placeholder name was derived not ready, on a form
\* that has a trainee
UpdateDerivedNotReady ==
  /\ last.op = "update_training_form"
  /\ last.ret
  /\ "ready_for_approval" \notin DOMAIN last.data
  /\ forms[last.form_id].training_name = "NA"
  /\ forms[last.form_id].end_date = 3
  /\ forms[last.form_id].ready_for_approval = FALSE
  /\ Len(trainees[last.form_id]) > 0
\* C17: a form saved with is_draft = true is flagged not ready: whenever
\* insert_training_form or update_training_form derives ready_for_approval
\* (the dictionary does not supply it), a stored row with is_draft = true has
\* ready_for_approval = False.
DraftIsNotReady ==
  ( /\ last.op \in {"insert_training_form", "update_training_form"}
    /\ "data" \in DOMAIN last
    /\ "ready_for_approval" \notin DOMAIN last.data
    /\ last.form_id \in DOMAIN forms
    /\ forms[last.form_id].is_draft = TRUE )
  => forms[last.form_id].ready_for_approval = FALSE
\* spellings of the undecided class
NotSureSpellings == {"Not sure", "NOT SURE", "not sure", "Not Sure", "Not sure "}

\* C16: a form whose ida_class is 'Not sure' in any letter case has
\* ready_for_approval = False after any submit or edit that saves it,
\* whatever its other fields: every stored row with that class is not ready,
\* and the flag derived for the saved field values is False under every
\* spelling of the class.
NotSureIsNotReady ==
  /\ \A id \in DOMAIN forms :
       forms[id].ida_class \in NotSureSpellings =>
         forms[id].ready_for_approval = FALSE
  /\ (last.op \in {"submit", "edit"} /\ last.outcome # "invalid") =>
       \A c \in NotSureSpellings :
         calculate_ready_for_approval(
           [prepare_form_data(last.inp) EXCEPT !.ida_class = c]) = FALSE

\* an edit saved a form as 'Not sure' that was ready before
EditedToNotSure ==
  /\ last.op = "edit"
  /\ last.outcome = "success"
  /\ last.existing_form # NoRow
  /\ last.existing_form.ready_for_approval = TRUE
  /\ forms[last.form_id].ida_class = "Not sure"
  /\ forms[last.form_id].ready_for_approval = FALSE

\* the placeholder values, as text and as the number the intake form parses
HasPlaceholder(row) ==
  \/ \E k \in {"training_name", "trainer_name", "supplier_name", "location_details",
              "training_description", "notes", "invoice_number", "concur_claim",
              "ida_class"} :
       row[k] \in {"NA", "N/A", "na", "1111", "€1111.00", "€1111", "1111.00", " NA "}
  \/ row.course_cost = 1111

\* C18: after every save by /submit or /edit the stored ready_for_approval is
\* False whenever one of the checked fields, course_cost included (1111
\* entered in the intake form), holds a placeholder value; it is recomputed
\* in full, so it is True exactly when the saved row holds no placeholder and
\* its class is not 'Not sure'.
PlaceholdersNotReady ==
  ( /\ last.op \in {"submit", "edit"}
    /\ last.outcome # "invalid"
    /\ last.form_id \in DOMAIN forms )
  => LET row == forms[last.form_id]
     IN  row.ready_for_approval =
           ~(HasPlaceholder(row) \/ row.ida_class \in NotSureSpellings)
\* the trainees of the exported forms, in export order, with their forms
RECURSIVE Attendance(_, _)
Attendance(order, k) ==
  IF k > Len(order)
  THEN << >>
  ELSE [ i \in 1..Len(trainees[order[k]]) |->
           [form_id |-> order[k], email |-> trainees[order[k]][i].email] ]
       \o Attendance(order, k + 1)

\* C19: for an export over N candidate forms with trainee counts c1..cN the
\* Trainee sheet receives exactly c1+...+cN data rows, in consecutive rows
\* from the first data row on, none overwritten or skipped: row k is the
\* complete row of the k-th trainee of the candidates; a form without
\* trainees contributes no row.
AttendanceRowCount ==
  (last.op = "export_claim5" /\ last.outcome = "exported") =>
    LET expected == Attendance(last.order, 1)
        sheet == last.book.trainee_sheet
    IN  /\ DOMAIN sheet = TraineeFirstRow..(TraineeFirstRow + Len(expected) - 1)
        /\ \A k \in 1..Len(expected) :
             LET cells == sheet[TraineeFirstRow + k - 1]
             IN  /\ cells.name = local_part(expected[k].email)
                 /\ cells.course = forms[expected[k].form_id].training_name
                 /\ cells.internal_trainer # None
                 /\ cells.external_trainer # None
\* whether form f names person p: as a trainee, or as its internal trainer
Names(f, p) ==
  \/ \E i \in 1..Len(trainees[f]) : local_part(trainees[f][i].email) = p
  \/ /\ forms[f].training_type = "Internal Training"
     /\ forms[f].trainer_email # None
     /\ local_part(forms[f].trainer_email) = p

\* the persons the exported forms name
People(order) ==
  { p \in UNION { { local_part(trainees[order[k]][i].email) :
                        i \in 1..Len(trainees[order[k]]) } : k \in 1..Len(order) }
          \cup { local_part(forms[order[k]].trainer_email) : k \in 1..Len(order) } :
      p # "" /\ p # None /\ \E k \in 1..Len(order) : Names(order[k], p) }

\* position in the export order of the first form that names p
FirstForm(order, p) ==
  CHOOSE k \in 1..Len(order) :
    /\ Names(order[k], p)
    /\ \A j \in 1..(k - 1) : ~Names(order[j], p)

\* the departments form f gives p where it names p first: the one of the
\* first trainee row of p, the trainer's department
FirstDepartments(f, p) ==
  LET rows == { i \in 1..Len(trainees[f]) : local_part(trainees[f][i].email) = p }
      trainer == /\ forms[f].training_type = "Internal Training"
                 /\ forms[f].trainer_email # None
                 /\ local_part(forms[f].trainer_email) = p
  IN  { trainees[f][i].department : i \in { i \in rows : \A j \in rows : i <= j } }
      \cup (IF trainer THEN { forms[f].trainer_department } ELSE {})

\* whether the exported forms name p more than once: in several forms, in
\* several trainee rows of one form, or as trainee and trainer of one form
Several(order, p) ==
  \/ \E k1, k2 \in 1..Len(order) :
       k1 # k2 /\ Names(order[k1], p) /\ Names(order[k2], p)
  \/ \E k \in 1..Len(order) :
       LET f == order[k]
           rows == { i \in 1..Len(trainees[f]) : local_part(trainees[f][i].email) = p }
       IN  \/ Cardinality(rows) > 1
           \/ /\ rows # {}
              /\ forms[f].training_type = "Internal Training"
              /\ forms[f].trainer_email # None
              /\ local_part(forms[f].trainer_email) = p

\* C20: the personnel-lookup sheet written by the export holds at most one
\* row per person; a trainee (by the local part of the email) or internal
\* trainer that the exported forms name several times, across forms or within
\* one form, is written exactly once; the rows come in order of first
\* appearance and carry the department of that first appearance.
PersonnelOneRowEach ==
  (last.op = "export_claim5" /\ last.outcome = "exported") =>
    LET order == last.order
        sheet == last.book.personnel_sheet
        people == People(order)
    IN  /\ \A r1, r2 \in DOMAIN sheet : sheet[r1].name = sheet[r2].name => r1 = r2
        /\ \A p \in people :
             Several(order, p) => \E r \in DOMAIN sheet : sheet[r].name = p
        /\ \A r \in DOMAIN sheet :
             sheet[r].name \in people =>
               sheet[r].department \in
                 FirstDepartments(order[FirstForm(order, sheet[r].name)], sheet[r].name)
        /\ \A r1, r2 \in DOMAIN sheet :
             (r1 < r2 /\ sheet[r1].name \in people /\ sheet[r2].name \in people) =>
               FirstForm(order, sheet[r1].name) <= FirstForm(order, sheet[r2].name)

\* the forms the caller's choice selects: by quarter when quarters were
\* chosen, else by date range when one was given, else every approved form
Selected(F, req) ==
  LET approved == get_approved_forms_for_export(F)
  IN  IF req.quarters # {}
      THEN { id \in approved : get_quarter(DerivedDate(F[id])) \in req.quarters }
      ELSE IF req.start_date # NoDate /\ req.end_date # NoDate
      THEN { id \in approved : /\ req.start_date <= DerivedDate(F[id])
                               /\ DerivedDate(F[id]) <= req.end_date }
      ELSE approved

\* C21: the forms an export writes are, when the caller chose quarters, the
\* approved forms whose quarter of the derived date is among them, even when
\* a date range is supplied too; otherwise, when a date range was given,
\* the approved forms whose derived date lies in [start, end] inclusive;
\* otherwise all approved forms.
ExportSelection ==
  (last.op = "export_claim5" /\ last.outcome = "exported") =>
    last.approved_forms = Selected(forms, last.req)

\* C22: the export is all-or-nothing: when the template is missing or the
\* processing of any exported form raises, the request ends with the error
\* message and no workbook; a workbook is never returned that lacks rows of
\* a form whose processing failed.
ExportAllOrNothing ==
  last.op = "export_claim5" =>
    /\ last.outcome = "exported" => last.book.swallowed = {}
    /\ last.outcome = "exported" =>
         \A k \in 1..Len(last.order) :
           \A i \in 1..Len(trainees[last.order[k]]) :
             \E r \in DOMAIN last.book.trainee_sheet :
               /\ last.book.trainee_sheet[r].course = forms[last.order[k]].training_name
               /\ last.book.trainee_sheet[r].name =
                    local_part(trainees[last.order[k]][i].email)

\* the child fields of a request body, by the name the warning gives them
ChildField(inp, w) ==
  CASE w = "travel expenses" -> inp.travel_expenses_data
    [] w = "material expenses" -> inp.material_expenses_data
    [] OTHER -> inp.trainees_data

\* whether the write of the child field w of a /submit or /edit body
\* fails: the field was sent, and it could not be read as JSON or one of its
\* rows was rejected by the bulk operation
ChildWriteFailed(inp, w) ==
  LET field == ChildField(inp, w)
      op == CASE w = "travel expenses" -> "insert_travel_expenses"
              [] w = "material expenses" -> "insert_material_expenses"
              [] OTHER -> "insert_trainees"
  IN  \/ field.kind = "malformed"
      \/ /\ field.kind = "list"
         /\ \E i \in 1..Len(field.v) : RowRaises(op, field.v[i])

\* C23: when the write of a child table fails during /submit or /edit, the
\* form row saved before it stays persisted, and the request reports the
\* failure as a warning naming that child table instead of a plain success.
ChildFailureWarned ==
  (last.op \in {"submit", "edit"} /\ last.outcome = "success") =>
    \A w \in {"travel expenses", "material expenses", "trainees"} :
      ChildWriteFailed(last.inp, w) =>
        /\ (last.op = "submit" => last.form_id \in DOMAIN forms)
        /\ w \in last.warnings

\* C24: a failure to send the submission notification never fails the
\* submission: whatever goes wrong in composing or sending it, the request
\* ends as a success and the form row and the child rows written before the
\* notification step are in the tables.
MailFailureHarmless ==
  [][ (last'.op = "submit" /\ "mail" \in DOMAIN last' /\ last'.mail # "sent") =>
        LET id == last'.form_id
        IN  /\ last'.outcome = "success"
            /\ id \notin DOMAIN forms /\ id \in DOMAIN forms'
            /\ forms'[id].training_name = last'.inp.training_name
            /\ \A w \in {"travel expenses", "material expenses", "trainees"} :
                 LET field == ChildField(last'.inp, w)
                     old == CASE w = "travel expenses" -> travel_expenses[id]
                              [] w = "material expenses" -> material_expenses[id]
                              [] OTHER -> trainees[id]
                     new == CASE w = "travel expenses" -> travel_expenses'[id]
                              [] w = "material expenses" -> material_expenses'[id]
                              [] OTHER -> trainees'[id]
                 IN  IF field.kind = "list" /\ ~ChildWriteFailed(last'.inp, w)
                     THEN Len(new) = Len(old) + Len(field.v)
                     ELSE new = old ]_vars

MailFailedAfterWrites ==
  /\ last.op = "submit" /\ "mail" \in DOMAIN last /\ last.mail = "logged"
  /\ last.outcome = "success"
  /\ Len(trainees[last.form_id]) = 1
  /\ Len(travel_expenses[last.form_id]) = 1

\* the forms that are soft-deleted for more than the retention window
PastRetention ==
  { id \in DOMAIN forms :
      /\ forms[id].deleted = TRUE
      /\ DayNumber(clock) - DayNumber(forms[id].deleted_datetimestamp) > 180 }

\* C25: a form row is physically removed only by the retention purge and
\* only when it is soft-deleted at that time with a deletion timestamp older
\* than 180 days; a purge that completes removes exactly those forms, with
\* all their trainee, travel, material and attachment rows, and leaves every
\* other row as it is; a soft delete, also of a recovered form, stamps the
\* form with the current time, so its grace period starts again.
RetentionPurgeExact ==
  [][ /\ (DOMAIN forms \ DOMAIN forms') \subseteq PastRetention
      /\ (DOMAIN forms \ DOMAIN forms' # {}) => last'.op = "maintenance"
      /\ (last'.op = "maintenance" /\ last'.purged) =>
           /\ DOMAIN forms' = DOMAIN forms \ PastRetention
           /\ \A id \in DOMAIN forms' : forms'[id] = forms[id]
           /\ \A f \in FormIds :
                IF f \in PastRetention
                THEN /\ trainees'[f] = << >>
                     /\ travel_expenses'[f] = << >>
                     /\ material_expenses'[f] = << >>
                     /\ \A a \in attachments' : a.form_id # f
                ELSE /\ trainees'[f] = trainees[f]
                     /\ travel_expenses'[f] = travel_expenses[f]
                     /\ material_expenses'[f] = material_expenses[f]
                     /\ \A a \in attachments : a.form_id = f => a \in attachments'
      /\ (last'.op = "delete" /\ last'.outcome = "deleted") =>
           forms'[last'.form_id].deleted_datetimestamp = clock
    ]_vars

PurgedOneKeptOne ==
  /\ last.op = "maintenance" /\ last.purged /\ last.removed # {}
  /\ \E id \in DOMAIN forms :
       /\ forms[id].deleted = TRUE
       /\ forms[id].deleted_datetimestamp > forms[id].submission_date
  /\ \A f \in last.removed :
       trainees[f] = << >> /\ \A a \in attachments : a.form_id # f

\* C26: outside production a run of the housekeeping job starts no task and
\* changes nothing; in production every run starts all three tasks, the
\* database backup, the retention purge and the employee refresh, whatever
\* the outcome of any one of them.
HousekeepingTasksIndependent ==
  [][ last'.op = "maintenance" =>
        /\ last'.env # "production" =>
             /\ last'.attempted = {}
             /\ UNCHANGED << forms, form_seq, children, admins, clock >>
        /\ last'.env = "production" =>
             last'.attempted = {"backup", "purge", "employees"}
    ]_vars

\* C27: every trainee, travel-expense, material-expense and attachment row
\* belongs to a form that exists, in every reachable state: after submits,
\* edits (also of an id no form has), child replacements and purges no child
\* row refers to a missing form.
ChildrenOwned ==
  /\ \A f \in FormIds :
       (trainees[f] # << >> \/ travel_expenses[f] # << >>
          \/ material_expenses[f] # << >>) => f \in DOMAIN forms
  /\ \A a \in attachments : a.form_id \in DOMAIN forms

\* C29: in every reachable state no form is both soft-deleted and approved:
\* deleted = True implies approved = False, after any sequence of submit,
\* edit, approve, soft-delete and recover requests.
DeletedNotApproved ==
  \A id \in DOMAIN forms : forms[id].deleted = TRUE => forms[id].approved = FALSE

\* C30: an edit through /edit/<id> of an existing form, soft-deleted or not,
\* is applied to its content and leaves its approved, deleted,
\* deleted_datetimestamp, is_draft and submitter columns as they were; an
\* approved form stays approved.
EditKeepsStatusColumns ==
  [][ (last'.op = "edit" /\ last'.outcome # "invalid"
         /\ last'.form_id \in DOMAIN forms) =>
        LET id == last'.form_id
        IN  /\ forms'[id].training_name = last'.inp.training_name
            /\ forms'[id].approved = forms[id].approved
            /\ forms'[id].deleted = forms[id].deleted
            /\ forms'[id].deleted_datetimestamp = forms[id].deleted_datetimestamp
            /\ forms'[id].is_draft = forms[id].is_draft
            /\ forms'[id].submitter = forms[id].submitter
    ]_vars

\* C28: two edits of one form that are in progress at the same time both
\* complete; afterwards the form row holds the data of the edit whose
\* update_training_form committed last, and each child collection is the
\* list written by the edit that replaced it last, with no mixture of the
\* two edits.
ConcurrentEditsLastWriterWins ==
  ( /\ \A r \in Requests : inflight[r].pc = "done"
    /\ inflight[1].form_id = inflight[2].form_id
    /\ \A r \in Requests : inflight[r].loaded # NoRow ) =>
    LET id == inflight[1].form_id
    IN  /\ Latest.forms \in Requests
        /\ \A k \in DOMAIN inflight[Latest.forms].form_data :
             forms[id][k] =
               update_from_dict(forms[id], inflight[Latest.forms].form_data)[k]
        /\ Latest.trainees \in Requests
        /\ trainees[id] = TraineeRows(inflight[Latest.trainees].inp.trainees_data.v)
        /\ Latest.travel_expenses \in Requests =>
             travel_expenses[id] =
               TravelRows(inflight[Latest.travel_expenses].inp.travel_expenses_data.v)
====
